---------------------------- MODULE Spec2Model ----------------------------
(***************************************************************************)
(* Model of the agent server: the pending-request broker                   *)
(* (src/services/pending-requests-manager.js), the conversation store      *)
(* (src/services/conversation-manager.js) and the orchestrator's agent     *)
(* loop (src/agent/orchestrator.js).                                       *)
(*                                                                         *)
(* Time is Date.now() in milliseconds.  It advances in steps of the sweep  *)
(* period (cleanupIntervalMs); a timer whose deadline is reached runs      *)
(* before the clock moves again (a responsive event loop), and any number  *)
(* of calls may arrive at one instant.                                     *)
(***************************************************************************)
EXTENDS Integers, Sequences, FiniteSets, TLC

\* ------------------------------------------------------------------ bounds
\* distinct request ids the environment uses against the broker
MaxIds == 2
\* futures created in one run of the broker specification
MaxCreates == 2
\* clock steps (of cleanupIntervalMs) in one run
MaxTicks == 3
\* largest maxIterations option a caller passes (0 stands for none)
MaxOptIterations == 2
\* tool-call blocks the gateway issues in one turn
MaxToolCalls == 2
\* the gateway issues tool-call blocks only in its first MaxToolIter answers
MaxToolIter == 1
\* longest history a direct caller of the store builds
MaxHistory == 3
\* tool calls the gateway asks of each of two interleaved turns
MaxTurnToolCalls == 1
\* tool calls the gateway asks of a sub-agent in one delegation
MaxSubAgentCalls == 2
\* largest maxRetries a caller of validateAndRetry passes
MaxRetries == 4
\* conversations the store holds at once under the idle sweep
MaxConversations == 2
\* hours of the clock under the idle sweep: two past the inactivity ceiling
MaxSweepHours == 26

\* --------------------------------------------------- program constants
defaultTimeout == 10000
maxRequests == 100
cleanupIntervalMs == 30000
maxAge == 60000
DefaultMaxRetries == 3
DefaultMaxIterations == 20
SubAgentMaxIterations == 10
HandlerTimeout == 10000

VARIABLES
    pendingRequests,   \* Map requestId -> [fut, timestamp]; fut stands for the
                       \* entry's resolve/reject pair and its timeout handle
    futures,           \* every promise createPendingRequest has returned, with
                       \* the state of the setTimeout armed for it
    cleanupInterval,   \* TRUE while the setInterval of the constructor is armed
    nextSweep,         \* instant at which the interval fires next
    now,               \* Date.now()
    lastOp,            \* the last operation of the broker and what it returned
    conversations,     \* ConversationManager.conversations: id -> conversation
    turn,              \* the locals of the processRequest / processRequestStream
                       \* call in progress, its position (pc) and what it has
                       \* emitted and returned
    peer,              \* the same for a second processRequestStream call that
                       \* runs concurrently with the first
    client,            \* a direct caller of the ConversationManager: its last
                       \* call, what it returned, and the array it holds
    subAgent,          \* the delegate_to_subagent call in progress: the role,
                       \* the catalog it sends to the gateway, its position
    res,               \* the HTTP response of POST /agent/process-stream
    stamps,            \* created_at and updated_at of each stored conversation
    retry              \* the validateAndRetry call in progress

vars == <<pendingRequests, futures, cleanupInterval, nextSweep, now, lastOp,
          conversations, turn, peer, client, subAgent, res, stamps, retry>>

RequestIds == 1..MaxIds

\* timeouts callers pass: the default, and one longer than the staleness ceiling
Timeouts == {defaultTimeout, 2 * maxAge}

\* payloads the live editor sends back
Payloads == {"withStructure", "noStructure"}

NoData == "none"

\* ------------------------------------------------------------ Map helpers
MapSet(m, k, v) == [x \in (DOMAIN m) \cup {k} |-> IF x = k THEN v ELSE m[x]]

MapDelete(m, k) == [x \in (DOMAIN m) \ {k} |-> m[x]]

EmptyMap == [x \in {} |-> 0]

\* ------------------------------------------------------- values of the loop
Undefined == "undefined"

NoConversation == "none"

\* a handler's return value / the parsed content of a tool_result block.
\* awaitResult holds the promise of a deferred result (0: no such field).
NoResult ==
    [command |-> Undefined, action |-> Undefined, requestId |-> 0,
     success |-> Undefined, structure |-> Undefined, error |-> Undefined,
     message |-> Undefined, awaitResult |-> 0]

\* a content block of a message: text, tool_use or tool_result
Block(type, text, id, name, content, isError) ==
    [type |-> type, text |-> text, id |-> id, name |-> name,
     content |-> content, is_error |-> isError]

TextBlock(text) == Block("text", text, 0, "", NoResult, FALSE)

ToolUseBlock(id, name) == Block("tool_use", "", id, name, NoResult, FALSE)

\* a message {role, content}: content is a string (text; marker names the
\* document whose "ID: <post id>" marker the string contains) or an array of
\* blocks
TextMessage(role, text, marker) ==
    [role |-> role, text |-> text, marker |-> marker, blocks |-> <<>>]

BlocksMessage(role, blocks) ==
    [role |-> role, text |-> Undefined, marker |-> Undefined, blocks |-> blocks]

NoResponse == [stop_reason |-> "none", content |-> <<>>]

UserMessage == "message"

NoOptions ==
    [conversation_id |-> NoConversation, wordpress_context |-> Undefined,
     maxIterations |-> 0, plan |-> FALSE, onPlanGenerated |-> FALSE,
     userMessage |-> UserMessage, enabled_tools |-> {}]

NoReturn ==
    [success |-> FALSE, response |-> Undefined, iterations |-> 0,
     conversation_id |-> NoConversation, plan_rejected |-> FALSE, returned |-> FALSE]

\* names of this.tools: a remote content API tool, the live-editor tool whose
\* result is deferred, and a live-editor command that returns at once
Tools == {"get_theme_info", "get_blocks_structure", "insert_block_realtime"}

\* names a model response may carry
ToolNames == Tools \cup {"no_such_tool"}

StopReasons == {"tool_use", "end_turn", "max_tokens"}

NoResponseGenerated == "No response generated"

SeqsUpTo(S, n) == UNION {[1..k -> S] : k \in 0..n}

\* the last observable event of the broker: a call of resolvePendingRequest or
\* rejectPendingRequest with the value it returned (fut: the promise it
\* settled, 0 when it returned false), or the timeout callback of promise fut
\* having run; every other operation leaves NoCall
Op(op, id, fut, ret) == [op |-> op, id |-> id, fut |-> fut, ret |-> ret]

NoCall == Op("none", 0, 0, FALSE)

\* --------------------------------------------------------------- promises
\* resolve()/reject() of a promise: the first call settles it, later calls
\* change nothing; every call is counted.
Settle(futs, f, outcome, data) ==
    [futs EXCEPT ![f] = [@ EXCEPT !.state = IF @ = "pending" THEN outcome ELSE @,
                                  !.data = IF futs[f].state = "pending" THEN data ELSE @,
                                  !.settles = @ + 1]]

\* clearTimeout(handle), and a timer that has run: the handle is dead
ClearTimeout(futs, f) == [futs EXCEPT ![f].armed = FALSE, ![f].deadline = 0]

\* ------------------------------------------------------- cleanup()
\* entries older than maxAge lose their timer and their Map entry; their
\* promise is not settled.
IsStale(entry, t) == t - entry.timestamp > maxAge

StaleIds(pending, t) == {r \in DOMAIN pending : IsStale(pending[r], t)}

CleanupPending(pending, t) ==
    [r \in (DOMAIN pending) \ StaleIds(pending, t) |-> pending[r]]

CleanupFutures(pending, futs, t) ==
    [f \in DOMAIN futs |->
        IF \E r \in StaleIds(pending, t) : pending[r].fut = f
        THEN ClearTimeout(futs, f)[f]
        ELSE futs[f]]

\* the forced sweep at the head of createPendingRequest
NeedsForcedSweep(pending) == Cardinality(DOMAIN pending) >= maxRequests

\* ------------------------------------------- createPendingRequest(id, timeout)
\* a promise registered without its setTimeout
NewFutureNoTimer(requestId, timeout, t) ==
    [requestId |-> requestId, state |-> "pending", data |-> NoData,
     settles |-> 0, armed |-> FALSE, deadline |-> 0]

NewFuture(requestId, timeout, t) ==
    [requestId |-> requestId, state |-> "pending", data |-> NoData,
     settles |-> 0, armed |-> TRUE, deadline |-> t + timeout]

\* the Map and the promises after createPendingRequest(requestId, timeout) at
\* instant t
CreatedPending(pending, futs, requestId, t) ==
    LET pend == IF NeedsForcedSweep(pending) THEN CleanupPending(pending, t) ELSE pending
    IN  MapSet(pend, requestId, [fut |-> Len(futs) + 1, timestamp |-> t])

CreatedFutures(pending, futs, requestId, timeout, t) ==
    LET swept == IF NeedsForcedSweep(pending) THEN CleanupFutures(pending, futs, t) ELSE futs
    IN  Append(swept, NewFuture(requestId, timeout, t))

CreatePendingRequest(requestId, timeout) ==
    /\ futures' = CreatedFutures(pendingRequests, futures, requestId, timeout, now)
    /\ pendingRequests' = CreatedPending(pendingRequests, futures, requestId, now)
    /\ lastOp' = NoCall
    /\ UNCHANGED <<conversations, turn, peer, client, subAgent, res, cleanupInterval, nextSweep, now, stamps, retry>>

\* ------------------------------------------- resolvePendingRequest(id, data)
\* a resolvePendingRequest that forgets clearTimeout(pending.timeout)
ResolveKeepsTimer(requestId, data) ==
    IF requestId \notin DOMAIN pendingRequests
    THEN /\ lastOp' = Op("resolve", requestId, 0, FALSE)
         /\ UNCHANGED <<conversations, turn, peer, client, subAgent, res, pendingRequests, futures, cleanupInterval, nextSweep, now, stamps, retry>>
    ELSE LET f == pendingRequests[requestId].fut
         IN  /\ futures' = Settle(futures, f, "resolved", data)
             /\ pendingRequests' = MapDelete(pendingRequests, requestId)
             /\ lastOp' = Op("resolve", requestId, f, TRUE)
             /\ UNCHANGED <<conversations, turn, peer, client, subAgent, res, cleanupInterval, nextSweep, now, stamps, retry>>

\* a resolvePendingRequest that forgets this.pendingRequests.delete(requestId)
ResolveKeepsEntry(requestId, data) ==
    IF requestId \notin DOMAIN pendingRequests
    THEN /\ lastOp' = Op("resolve", requestId, 0, FALSE)
         /\ UNCHANGED <<conversations, turn, peer, client, subAgent, res, pendingRequests, futures, cleanupInterval, nextSweep, now, stamps, retry>>
    ELSE LET f == pendingRequests[requestId].fut
         IN  /\ futures' = Settle(ClearTimeout(futures, f), f, "resolved", data)
             /\ lastOp' = Op("resolve", requestId, f, TRUE)
             /\ UNCHANGED <<conversations, turn, peer, client, subAgent, res, pendingRequests, cleanupInterval, nextSweep, now, stamps, retry>>

ResolvePendingRequest(requestId, data) ==
    IF requestId \notin DOMAIN pendingRequests
    THEN /\ lastOp' = Op("resolve", requestId, 0, FALSE)
         /\ UNCHANGED <<conversations, turn, peer, client, subAgent, res, pendingRequests, futures, cleanupInterval, nextSweep, now, stamps, retry>>
    ELSE LET f == pendingRequests[requestId].fut
         IN  /\ futures' = Settle(ClearTimeout(futures, f), f, "resolved", data)
             /\ pendingRequests' = MapDelete(pendingRequests, requestId)
             /\ lastOp' = Op("resolve", requestId, f, TRUE)
             /\ UNCHANGED <<conversations, turn, peer, client, subAgent, res, cleanupInterval, nextSweep, now, stamps, retry>>

\* ------------------------------------------- rejectPendingRequest(id, error)
RejectPendingRequest(requestId) ==
    IF requestId \notin DOMAIN pendingRequests
    THEN /\ lastOp' = Op("reject", requestId, 0, FALSE)
         /\ UNCHANGED <<conversations, turn, peer, client, subAgent, res, pendingRequests, futures, cleanupInterval, nextSweep, now, stamps, retry>>
    ELSE LET f == pendingRequests[requestId].fut
         IN  /\ futures' = Settle(ClearTimeout(futures, f), f, "rejected", NoData)
             /\ pendingRequests' = MapDelete(pendingRequests, requestId)
             /\ lastOp' = Op("reject", requestId, f, TRUE)
             /\ UNCHANGED <<conversations, turn, peer, client, subAgent, res, cleanupInterval, nextSweep, now, stamps, retry>>

\* ------------------------------------------- the setTimeout callback of future f
TimerDue(f) == futures[f].armed /\ futures[f].deadline <= now

\* a timeout callback that forgets this.pendingRequests.delete(requestId)
TimeoutKeepsEntry(f) ==
    /\ TimerDue(f)
    /\ futures' = Settle(ClearTimeout(futures, f), f, "timeout", NoData)
    /\ lastOp' = Op("timeout", futures[f].requestId, f, FALSE)
    /\ UNCHANGED <<conversations, turn, peer, client, subAgent, res, pendingRequests, cleanupInterval, nextSweep, now, stamps, retry>>

TimeoutFires(f) ==
    /\ TimerDue(f)
    /\ pendingRequests' = MapDelete(pendingRequests, futures[f].requestId)
    /\ futures' = Settle(ClearTimeout(futures, f), f, "timeout", NoData)
    /\ lastOp' = Op("timeout", futures[f].requestId, f, FALSE)
    /\ UNCHANGED <<conversations, turn, peer, client, subAgent, res, cleanupInterval, nextSweep, now, stamps, retry>>

\* ------------------------------------------- the setInterval callback: cleanup()
SweepDue == cleanupInterval /\ nextSweep <= now

SweepFires ==
    /\ SweepDue
    /\ pendingRequests' = CleanupPending(pendingRequests, now)
    /\ futures' = CleanupFutures(pendingRequests, futures, now)
    /\ nextSweep' = nextSweep + cleanupIntervalMs
    /\ lastOp' = NoCall
    /\ UNCHANGED <<conversations, turn, peer, client, subAgent, res, cleanupInterval, now, stamps, retry>>

\* ------------------------------------------- destroy()
\* a destroy that clears the timers but rejects nothing
DestroyFuturesSkipsReject(pending, futs) ==
    [f \in DOMAIN futs |->
        IF \E r \in DOMAIN pending : pending[r].fut = f
        THEN ClearTimeout(futs, f)[f]
        ELSE futs[f]]

DestroyFutures(pending, futs) ==
    [f \in DOMAIN futs |->
        IF \E r \in DOMAIN pending : pending[r].fut = f
        THEN Settle(ClearTimeout(futs, f), f, "destroyed", NoData)[f]
        ELSE futs[f]]

\* clearInterval: the interval is dead, its next instant no longer counts
Destroy ==
    /\ cleanupInterval' = FALSE
    /\ nextSweep' = 0
    /\ futures' = DestroyFutures(pendingRequests, futures)
    /\ pendingRequests' = EmptyMap
    /\ lastOp' = Op("destroy", 0, 0, FALSE)
    /\ UNCHANGED <<conversations, turn, peer, client, subAgent, res, now, stamps, retry>>

\* ------------------------------------------- the clock
Tick ==
    /\ now < MaxTicks * cleanupIntervalMs
    /\ ~SweepDue
    /\ \A f \in DOMAIN futures : ~TimerDue(f)
    /\ now' = now + cleanupIntervalMs
    /\ lastOp' = NoCall
    /\ UNCHANGED <<conversations, turn, peer, client, subAgent, res, pendingRequests, futures, cleanupInterval, nextSweep, stamps, retry>>

\* ------------------------------------------- the broker on its own
\* an array a caller holds: its items, and the conversation whose stored
\* history array it is (NoConversation when it is an array of its own)
HeldArray(items, alias) == [items |-> items, alias |-> alias]

\* a caller of the store that has called nothing yet.  from, loaded and pushed
\* remember where the held array was loaded from, what it held then and what
\* the caller has appended since; changed tells that the caller also removed
\* items; roundTrip tells that the last call completed a write-back
IdleClient ==
    [op |-> "none", id |-> NoConversation, threw |-> FALSE,
     held |-> HeldArray(<<>>, NoConversation), from |-> NoConversation,
     loaded |-> <<>>, pushed |-> <<>>, changed |-> FALSE, roundTrip |-> FALSE]

\* validateAndRetry has not been called
NoRetry ==
    [pc |-> "idle", given |-> FALSE, maxRetries |-> 0, attempt |-> 0, attempts |-> 0,
     lastError |-> Undefined, failures |-> <<>>, waits |-> <<>>,
     result |-> NoResult, error |-> Undefined, raised |-> 0]

\* no request on the streaming route yet: nothing written by the route itself,
\* no status, the response open
NoRequest == [phase |-> "idle", status |-> 0, written |-> <<>>, ended |-> FALSE]

\* execute has not returned
NoPayload ==
    [returned |-> FALSE, success |-> FALSE, message |-> Undefined,
     iterations |-> 0, toolsExecuted |-> <<>>]

\* no delegation in progress
IdleSubAgent ==
    [pc |-> "idle", agent |-> "none", allTools |-> {}, catalog |-> {},
     iterations |-> 0, gatewayCalls |-> 0, executed |-> {}, refused |-> {},
     toolCalls |-> 0, success |-> FALSE, continueLoop |-> TRUE,
     finalText |-> Undefined, finalAt |-> 0,
     calls |-> <<>>, invoked |-> <<>>, results |-> <<>>, toolsExecuted |-> <<>>,
     payload |-> NoPayload, executeThrew |-> FALSE]

\* no turn in progress
IdleTurn ==
    [mode |-> "none", pc |-> "idle", opts |-> NoOptions, activeConversationId |-> NoConversation,
     conversationHistory |-> <<>>, iterations |-> 0, maxIterations |-> 0,
     continueLoop |-> TRUE, finalResponse |-> NoResponse, response |-> NoResponse,
     toolCalls |-> <<>>, toolIdx |-> 0, toolResults |-> <<>>,
     awaiting |-> 0, pendingResult |-> NoResult,
     result |-> NoReturn, error |-> "none", events |-> <<>>,
     gatewayCalls |-> 0, planCalls |-> 0, toolUseSeq |-> 0,
     dispatched |-> <<>>, allToolUse |-> TRUE, before |-> EmptyMap,
     saveError |-> FALSE, catalog |-> {}, invoked |-> {}]

\* the state after `new PendingRequestsManager()`
InitBroker ==
    /\ conversations = EmptyMap
    /\ turn = IdleTurn
    /\ peer = IdleTurn
    /\ client = IdleClient
    /\ subAgent = IdleSubAgent
    /\ res = NoRequest
    /\ retry = NoRetry
    /\ stamps = EmptyMap
    /\ pendingRequests = EmptyMap
    /\ futures = <<>>
    /\ cleanupInterval = TRUE
    /\ nextSweep = cleanupIntervalMs
    /\ now = 0
    /\ lastOp = NoCall

NextBroker ==
    \/ \E r \in RequestIds, t \in Timeouts :
          Len(futures) < MaxCreates /\ CreatePendingRequest(r, t)
    \/ \E r \in RequestIds : ResolvePendingRequest(r, "withStructure")
    \/ \E r \in RequestIds : RejectPendingRequest(r)
    \/ \E f \in DOMAIN futures : TimeoutFires(f)
    \/ SweepFires
    \/ Destroy
    \/ Tick

SpecBroker == InitBroker /\ [][NextBroker]_vars

\* ------------------------------------------- the broker at its ceiling
\* ids of the requests that fill the registry up to one below the ceiling
BallastIds == 1..(maxRequests - 1)

\* ids the environment creates on top of them
FreshIds == {maxRequests - 1 + k : k \in 1..MaxIds}

\* the state after maxRequests - 1 calls createPendingRequest(id, 2 * maxAge)
\* at instant 0
InitFull ==
    /\ conversations = EmptyMap
    /\ turn = IdleTurn
    /\ peer = IdleTurn
    /\ client = IdleClient
    /\ subAgent = IdleSubAgent
    /\ res = NoRequest
    /\ retry = NoRetry
    /\ stamps = EmptyMap
    /\ pendingRequests = [r \in BallastIds |-> [fut |-> r, timestamp |-> 0]]
    /\ futures = [f \in BallastIds |->
                    [requestId |-> f, state |-> "pending", data |-> NoData,
                     settles |-> 0, armed |-> TRUE, deadline |-> 2 * maxAge]]
    /\ cleanupInterval = TRUE
    /\ nextSweep = cleanupIntervalMs
    /\ now = 0
    /\ lastOp = NoCall

NextFull ==
    \/ \E r \in FreshIds, t \in Timeouts :
          Len(futures) < maxRequests - 1 + MaxCreates /\ CreatePendingRequest(r, t)
    \/ \E r \in FreshIds : ResolvePendingRequest(r, "withStructure")
    \/ \E r \in FreshIds : RejectPendingRequest(r)
    \/ \E f \in DOMAIN futures : TimeoutFires(f)
    \/ SweepFires
    \/ Tick

SpecFull == InitFull /\ [][NextFull]_vars

\* ============================================================ the gateway
\* AnthropicClient.extractToolCalls(response)
ExtractToolCalls(response) ==
    IF response.stop_reason # "tool_use"
    THEN <<>>
    ELSE SelectSeq(response.content, LAMBDA b : b.type = "tool_use")

RECURSIVE JoinLines(_)
JoinLines(texts) ==
    IF Len(texts) = 0 THEN ""
    ELSE IF Len(texts) = 1 THEN texts[1]
    ELSE texts[1] \o "\n" \o JoinLines(Tail(texts))

\* AnthropicClient.extractText(response)
ExtractText(response) ==
    LET textBlocks == SelectSeq(response.content, LAMBDA b : b.type = "text")
    IN  JoinLines([i \in 1..Len(textBlocks) |-> textBlocks[i].text])

\* the k-th answer of the gateway in a turn: a text block, then one tool_use
\* block per name, with ids numbered on from firstId
GatewayResponse(stop, k, names, firstId) ==
    [stop_reason |-> stop,
     content |-> <<TextBlock("text-" \o ToString(k))>> \o
                 [i \in 1..Len(names) |-> ToolUseBlock(firstId + i, names[i])]]

\* ================================================= the conversation store
ConversationIds == {"c1", "gone", "u1", "u2", "u3"}

\* uuidv4() of createConversation
NewConversationId == "u1"

\* uuidv4() of createConversation when conversations have been created before:
\* an id no conversation has
FreshConversationId(store) ==
    IF NewConversationId \notin DOMAIN store THEN NewConversationId
    ELSE IF "u2" \notin DOMAIN store THEN "u2"
    ELSE "u3"

\* ConversationManager.createConversation(metadata)
CreateConversation(store, id, metadata) ==
    MapSet(store, id, [history |-> <<>>, metadata |-> metadata])

\* ConversationManager.getHistory(conversationId): a copy, empty when unknown
GetHistory(store, id) ==
    IF id \notin DOMAIN store THEN <<>> ELSE store[id].history

\* ConversationManager.clearHistory(conversationId); throws when unknown
ClearHistoryThrows(store, id) == id \notin DOMAIN store

\* a clearHistory that replaces the conversation by a new, empty one
ClearHistoryStartsOver(store, id) ==
    [store EXCEPT ![id] = [history |-> <<>>, metadata |-> Undefined]]

\* a clearHistory that leaves the stored messages in place
ClearHistoryKeeps(store, id) == store

ClearHistory(store, id) == [store EXCEPT ![id].history = <<>>]

\* ConversationManager.addMessages(conversationId, messages)
AddMessages(store, id, messages) ==
    [store EXCEPT ![id].history = @ \o messages]

\* ConversationManager.addMessage(conversationId, message)
AddMessage(store, id, message) ==
    [store EXCEPT ![id].history = Append(@, message)]

\* `if (!conversation) throw new Error(... not found)` of the three writers
NotFound(store, id) == id \notin DOMAIN store

\* ConversationManager.updateMetadata: { ...conversation.metadata, ...metadata }
\* for the one key the model keeps
UpdateMetadata(store, id, metadata) == [store EXCEPT ![id].metadata = metadata]

\* created_at: new Date(), updated_at: new Date() of createConversation;
\* accessed_at is not a field of the program: it keeps the instant of the last
\* call that named the conversation
StampCreated(st, id, t) ==
    MapSet(st, id, [created_at |-> t, updated_at |-> t, accessed_at |-> t])

\* a call at instant t named the conversation id
Accessed(st, id, t) ==
    IF id \in DOMAIN st THEN [st EXCEPT ![id].accessed_at = t] ELSE st

\* conversation.updated_at = new Date() of getConversation and of the writers;
\* nothing for an id that is not stored
Touch(st, id, t) ==
    IF id \in DOMAIN st THEN [st EXCEPT ![id].updated_at = t] ELSE st

\* the interval of startCleanupInterval and its inactivity ceiling, in ms
CLEANUP_INTERVAL == 3600000

MAX_INACTIVE_TIME == 86400000

\* a sweep that also deletes a conversation inactive for exactly the ceiling
InactiveInclusive(st, t) ==
    {id \in DOMAIN st : t - st[id].updated_at >= MAX_INACTIVE_TIME}

\* the ids the interval callback deletes at instant t:
\* inactive_time > MAX_INACTIVE_TIME
Inactive(st, t) ==
    {id \in DOMAIN st : t - st[id].updated_at > MAX_INACTIVE_TIME}

\* a Map after the callback's delete of every inactive id
Swept(m, st, t) == [id \in (DOMAIN m) \ Inactive(st, t) |-> m[id]]

\* ======================================================= tool results
\* JSON.stringify(result): properties that are undefined are left out, and a
\* promise is written as an empty object (-1)
Stringify(result) ==
    [result EXCEPT !.awaitResult = IF @ = 0 THEN 0 ELSE -1]

\* JSON.stringify({ error: true, message: error.message })
ErrorContent(message) ==
    [NoResult EXCEPT !.error = "true", !.message = message]

ToolResultBlock(id, content, isError) ==
    Block("tool_result", "", id, "", content, isError)

\* what the handler of get_blocks_structure returns
BlocksStructureCommand(requestId, fut) ==
    [NoResult EXCEPT !.command = "gutenberg_action", !.action = "get_blocks_structure",
                     !.requestId = requestId, !.success = "true",
                     !.message = "fetching", !.awaitResult = fut]

\* what the handler of insert_block_realtime returns
InsertBlockCommand(requestId) ==
    [NoResult EXCEPT !.command = "gutenberg_action", !.action = "insert_block",
                     !.requestId = requestId, !.success = "true",
                     !.message = "inserted"]

\* what the handler of get_theme_info returns
ThemeInfo == [NoResult EXCEPT !.message = "theme"]

\* executeTool: { ...result, ...iframeResponse } and delete result._awaitResult
MergeIframeResponse(result, data) ==
    [result EXCEPT !.structure = IF data = "withStructure" THEN "structure" ELSE @,
                   !.awaitResult = 0]

\* a failure result that keeps none of the command's fields
FailureResultDropsCommand(result, reason) ==
    [NoResult EXCEPT !.success = "false",
                     !.error = "Iframe response timeout: " \o reason,
                     !.message = "expired"]

\* executeTool: the result returned when the awaited promise rejects
FailureResult(result, reason) ==
    [NoResult EXCEPT !.command = result.command, !.action = result.action,
                     !.requestId = result.requestId, !.success = "false",
                     !.error = "Iframe response timeout: " \o reason,
                     !.message = "expired"]

\* error.message of the rejection of a future
RejectionMessage(fut) ==
    IF fut.state = "timeout" THEN "Request timed out"
    ELSE IF fut.state = "destroyed" THEN "PendingRequestsManager destroyed"
    ELSE "rejected by the caller"

\* ============================================================ the agent loop
\* what one step of a turn reads and writes: the turn's locals, the
\* conversation store and the broker
World(t) ==
    [t |-> t, store |-> conversations, pending |-> pendingRequests, futs |-> futures]

Apply(w) ==
    /\ turn' = w.t
    /\ conversations' = w.store
    /\ pendingRequests' = w.pending
    /\ futures' = w.futs
    /\ lastOp' = NoCall
    /\ UNCHANGED <<cleanupInterval, nextSweep, now, peer, client, subAgent, res, stamps, retry>>

\* an event handed to a callback of the streaming turn
Event(type, name, ok, result, text, n) ==
    [type |-> type, name |-> name, ok |-> ok, result |-> result, text |-> text, n |-> n]

\* processRequest has no callbacks; the stream route registers them all
Emit(w, ev) ==
    IF w.t.mode = "stream" THEN [w EXCEPT !.t.events = Append(@, ev)] ELSE w

\* options.maxIterations || 20
MaxIterationsOf(opt) == IF opt = 0 THEN DefaultMaxIterations ELSE opt

\* the write-back: clearHistory, addMessages, and a catch that only logs
SaveHistory(store, id, history) ==
    IF ClearHistoryThrows(store, id) THEN store
    ELSE AddMessages(ClearHistory(store, id), id, history)

\* a catch that writes the turn's history back before it rethrows
FailSavesHistory(w, message) ==
    [Emit(w, Event("error", "", FALSE, NoResult, message, 0))
        EXCEPT !.t.pc = "failed", !.t.error = message,
               !.store = SaveHistory(@, w.t.activeConversationId, w.t.conversationHistory)]

\* the catch of processRequest / processRequestStream: onError, then rethrow
Fail(w, message) ==
    [Emit(w, Event("error", "", FALSE, NoResult, message, 0))
        EXCEPT !.t.pc = "failed", !.t.error = message]

\* the code after the loop: response text, onFinalResponse, write-back, return
ResponseText(finalResponse) ==
    IF finalResponse = NoResponse THEN NoResponseGenerated ELSE ExtractText(finalResponse)

Finish(w) ==
    LET responseText == ResponseText(w.t.finalResponse)
        w1 == Emit(w, Event("final_response", w.t.activeConversationId, TRUE,
                            NoResult, responseText, 0))
    IN  [w1 EXCEPT
            !.store = IF w.t.mode = "stream"
                      THEN SaveHistory(@, w.t.activeConversationId, w.t.conversationHistory)
                      ELSE @,
            !.t.saveError = w.t.mode = "stream"
                               /\ ClearHistoryThrows(w.store, w.t.activeConversationId),
            !.t.pc = "done",
            !.t.result = [success |-> TRUE, response |-> responseText,
                          iterations |-> w.t.iterations,
                          conversation_id |-> w.t.activeConversationId,
                          plan_rejected |-> FALSE, returned |-> TRUE]]

\* a loop whose test is iterations <= maxIterations
LoopTopOffByOne(w) ==
    IF w.t.continueLoop /\ w.t.iterations <= w.t.maxIterations
    THEN [Emit(w, Event("iteration_start", "", TRUE, NoResult, "", w.t.iterations + 1))
            EXCEPT !.t.iterations = @ + 1,
                   !.t.gatewayCalls = @ + 1,
                   !.t.pc = "gateway"]
    ELSE Finish(w)

\* while (continueLoop && iterations < maxIterations): up to sendMessage
LoopTop(w) ==
    IF w.t.continueLoop /\ w.t.iterations < w.t.maxIterations
    THEN [Emit(w, Event("iteration_start", "", TRUE, NoResult, "", w.t.iterations + 1))
            EXCEPT !.t.iterations = @ + 1,
                   !.t.gatewayCalls = @ + 1,
                   !.t.pc = "gateway"]
    ELSE Finish(w)

\* conversationHistory.push({ role: 'user', content: toolResults })
AfterToolCalls(w) ==
    [w EXCEPT !.t.conversationHistory = Append(@, BlocksMessage("user", w.t.toolResults))]

\* result._command === 'gutenberg_action' && result.structure
AlreadyStreamed(result) ==
    result.command = "gutenberg_action" /\ result.structure # Undefined

RECURSIVE RunToolCalls(_)

\* the success path of one tool call: onToolResult and toolResults.push
CompleteCall(w, result) ==
    LET call == w.t.toolCalls[w.t.toolIdx + 1]
        w1 == IF AlreadyStreamed(result) THEN w
              ELSE Emit(w, Event("tool_result", call.name, TRUE, result, "", 0))
    IN  RunToolCalls(
          [w1 EXCEPT !.t.toolResults = Append(@, ToolResultBlock(call.id, Stringify(result), FALSE)),
                     !.t.toolIdx = @ + 1,
                     !.t.awaiting = 0,
                     !.t.pendingResult = NoResult])

\* a catch that reports the failure but pushes no tool_result
FailCallDropsResult(w, message) ==
    LET call == w.t.toolCalls[w.t.toolIdx + 1]
        w1 == Emit(w, Event("tool_result", call.name, FALSE, NoResult, message, 0))
    IN  RunToolCalls([w1 EXCEPT !.t.toolIdx = @ + 1])

\* no catch around the tool call: the error ends the turn
FailCallRethrows(w, message) == Fail(w, message)

\* the catch of one tool call: onToolResult(name, false, ..) and an is_error
\* tool_result
FailCall(w, message) ==
    LET call == w.t.toolCalls[w.t.toolIdx + 1]
        w1 == Emit(w, Event("tool_result", call.name, FALSE, NoResult, message, 0))
    IN  RunToolCalls(
          [w1 EXCEPT !.t.toolResults = Append(@, ToolResultBlock(call.id, ErrorContent(message), TRUE)),
                     !.t.toolIdx = @ + 1])

\* uuidv4() of a live-editor handler
NewRequestId(w) == Len(w.futs) + 1

\* an executeTool that awaits the iframe without forwarding the command first
AwaitIframeSilent(w) ==
    LET requestId == NewRequestId(w)
        fut == Len(w.futs) + 1
        result == BlocksStructureCommand(requestId, fut)
        w1 == [w EXCEPT !.pending = CreatedPending(w.pending, w.futs, requestId, now),
                        !.futs = CreatedFutures(w.pending, w.futs, requestId, HandlerTimeout, now)]
    IN  [w1 EXCEPT !.t.pc = "await", !.t.awaiting = fut, !.t.pendingResult = result]

\* the handler of get_blocks_structure, then executeTool up to its await
AwaitIframe(w) ==
    LET call == w.t.toolCalls[w.t.toolIdx + 1]
        requestId == NewRequestId(w)
        fut == Len(w.futs) + 1
        result == BlocksStructureCommand(requestId, fut)
        w1 == [w EXCEPT !.pending = CreatedPending(w.pending, w.futs, requestId, now),
                        !.futs = CreatedFutures(w.pending, w.futs, requestId, HandlerTimeout, now)]
        w2 == Emit(w1, Event("tool_result", call.name, TRUE, result, "", 0))
    IN  [w2 EXCEPT !.t.pc = "await", !.t.awaiting = fut, !.t.pendingResult = result]

\* for (const toolCall of toolCalls): from the next call up to the next await
RunToolCalls(w) ==
    IF w.t.toolIdx = Len(w.t.toolCalls)
    THEN LoopTop(AfterToolCalls(w))
    ELSE LET call == w.t.toolCalls[w.t.toolIdx + 1]
             w1 == [Emit(w, Event("tool_call", call.name, TRUE, NoResult, "", call.id))
                       EXCEPT !.t.dispatched = Append(@, call.id)]
             w2 == [w1 EXCEPT !.t.invoked = @ \cup {call.name}]
         IN  IF call.name \notin Tools
             THEN FailCall(w1, "Unknown tool: " \o call.name)
             ELSE IF call.name = "insert_block_realtime"
             THEN CompleteCall(w2, InsertBlockCommand(NewRequestId(w2)))
             ELSE IF call.name = "get_blocks_structure"
             THEN AwaitIframe(w2)
             ELSE [w2 EXCEPT !.t.pc = "handler"]

\* ------------------------------------------- processRequest(userMessage, options)
StartBlocking(maxIterations) ==
    /\ turn.pc = "idle"
    /\ Apply(LoopTop(World(
          [IdleTurn EXCEPT
              !.mode = "blocking",
              !.catalog = Tools,
              !.opts.maxIterations = maxIterations,
              !.before = conversations,
              !.conversationHistory = <<TextMessage("user", UserMessage, Undefined)>>,
              !.maxIterations = MaxIterationsOf(maxIterations)])))

\* ------------------------------------- processRequestStream(userMessage, options)
\* a scan that never finds the marker
ContextNeverFound(history, post) == FALSE

\* conversationHistory.some(msg => msg.role === 'user' &&
\*                          msg.content.includes(`ID: ${current_post_id}`))
HasContextForThisPage(history, post) ==
    \E i \in 1..Len(history) : history[i].role = "user" /\ history[i].marker = post

\* this.tools, or this.tools.filter(tool => enabled_tools.includes(tool.name))
AvailableTools(enabled_tools) ==
    IF enabled_tools # {} THEN {name \in Tools : name \in enabled_tools} ELSE Tools

\* the user message is pushed and the loop entered
BeginLoop(w) ==
    LoopTop([w EXCEPT
        !.t.catalog = AvailableTools(w.t.opts.enabled_tools),
        !.t.conversationHistory = Append(@, TextMessage("user", w.t.opts.userMessage, Undefined)),
        !.t.maxIterations = MaxIterationsOf(w.t.opts.maxIterations)])

\* the conversation is created or named, its history loaded, and the page
\* context looked for
OpenConversation(w) ==
    LET given == w.t.opts.conversation_id
        post == w.t.opts.wordpress_context
        id == IF given = NoConversation THEN FreshConversationId(w.store) ELSE given
        store == IF given = NoConversation
                 THEN CreateConversation(w.store, id, post) ELSE w.store
        history == GetHistory(store, id)
        w1 == [w EXCEPT !.store = store,
                        !.t.activeConversationId = id,
                        !.t.conversationHistory = history]
    IN  IF post # Undefined /\ ~HasContextForThisPage(history, post)
        THEN [w1 EXCEPT !.t.pc = "pageContext"]
        ELSE BeginLoop(w1)

StartStream(opts) ==
    /\ turn.pc = "idle"
    /\ LET w == World([IdleTurn EXCEPT !.mode = "stream", !.opts = opts,
                                       !.before = conversations])
       IN  IF opts.plan
           THEN Apply([w EXCEPT !.t.pc = "planGateway", !.t.planCalls = 1])
           ELSE Apply(OpenConversation(w))

\* generatePlan's sendMessage answers; onPlanGenerated(plan) is called if given
PlanGatewayReturns ==
    /\ turn.pc = "planGateway"
    /\ IF turn.opts.onPlanGenerated
       THEN Apply([Emit(World(turn), Event("plan_generated", "", TRUE, NoResult, "", 0))
                      EXCEPT !.t.pc = "planApproval"])
       ELSE Apply(OpenConversation(World(turn)))

PlanGatewayFails ==
    /\ turn.pc = "planGateway"
    /\ Apply(Fail(World(turn), "gateway"))

\* a plan mode that opens the conversation before it asks for approval
PlanApprovalAfterOpening(planApproved) ==
    /\ turn.pc = "planApproval"
    /\ IF planApproved
       THEN Apply(OpenConversation(World(turn)))
       ELSE Apply([OpenConversation(World(turn)) EXCEPT
                     !.t.pc = "done",
                     !.t.result = [NoReturn EXCEPT !.response = "Plan rejected by user",
                                                   !.plan_rejected = TRUE,
                                                   !.returned = TRUE]])

\* the promise of onPlanGenerated settles
PlanApproval(planApproved) ==
    /\ turn.pc = "planApproval"
    /\ IF planApproved
       THEN Apply(OpenConversation(World(turn)))
       ELSE Apply([World(turn) EXCEPT
                     !.t.pc = "done",
                     !.t.result = [NoReturn EXCEPT !.response = "Plan rejected by user",
                                                   !.plan_rejected = TRUE,
                                                   !.returned = TRUE]])

\* wordpressAPI.getPageContext answers (full) or throws (not full); the context
\* message is pushed either way
PageContextAnswer(w, full) ==
    BeginLoop([w EXCEPT
       !.t.conversationHistory =
           Append(@, TextMessage("user",
                                 IF full THEN "context-full" ELSE "context-basic",
                                 w.t.opts.wordpress_context))])

PageContextReturns(full) ==
    /\ turn.pc = "pageContext"
    /\ Apply(PageContextAnswer(World(turn), full))

\* ------------------------------------------- sendMessage of the loop answers
\* the body of the loop after sendMessage has answered
GatewayAnswer(w0, stop, names) ==
    LET response == GatewayResponse(stop, w0.t.gatewayCalls, names, w0.t.toolUseSeq)
        w == [w0 EXCEPT !.t.response = response,
                        !.t.toolUseSeq = @ + Len(names),
                        !.t.allToolUse = @ /\ stop = "tool_use"]
    IN  IF stop = "tool_use"
        THEN RunToolCalls([w EXCEPT
                !.t.toolCalls = ExtractToolCalls(response),
                !.t.conversationHistory = Append(@, BlocksMessage("assistant", response.content)),
                !.t.toolResults = <<>>,
                !.t.toolIdx = 0])
        ELSE LoopTop([w EXCEPT !.t.finalResponse = response,
                               !.t.continueLoop = FALSE])

GatewayResponds(stop, names) ==
    /\ turn.pc = "gateway"
    /\ Len(names) <= MaxToolCalls - turn.toolUseSeq
    /\ names # <<>> => turn.gatewayCalls <= MaxToolIter
    /\ Apply(GatewayAnswer(World(turn), stop, names))

\* sendMessage of the loop throws
GatewayFails ==
    /\ turn.pc = "gateway"
    /\ Apply(Fail(World(turn), "gateway"))

\* ------------------------------------------- a remote handler answers or throws
HandlerReturns ==
    /\ turn.pc = "handler"
    /\ Apply(CompleteCall(World(turn), ThemeInfo))

HandlerThrows ==
    /\ turn.pc = "handler"
    /\ Apply(FailCall(World(turn), "handler failed"))

\* ------------------------------------------- await result._awaitResult
AwaitSettles ==
    /\ turn.pc = "await"
    /\ futures[turn.awaiting].state # "pending"
    /\ LET fut == futures[turn.awaiting]
       IN  IF fut.state = "resolved"
           THEN Apply(CompleteCall(World(turn), MergeIframeResponse(turn.pendingResult, fut.data)))
           ELSE Apply(CompleteCall(World(turn),
                                   FailureResult(turn.pendingResult, RejectionMessage(fut))))

\* ------------------------------------------- one turn against the broker
StoredConversation ==
    [history |-> <<TextMessage("user", "context-full", "p7"),
                   TextMessage("user", "earlier message", Undefined)>>,
     metadata |-> "p7"]

\* the options of a streaming turn: every conversation_id, context and
\* maxIterations without a plan, a message that asks for a plan on a new
\* conversation, with and without onPlanGenerated, and a turn with an
\* allow-list of one tool
StreamOptions ==
    {[conversation_id |-> c, wordpress_context |-> p, maxIterations |-> m,
      plan |-> FALSE, onPlanGenerated |-> FALSE, userMessage |-> UserMessage,
      enabled_tools |-> {}] :
        c \in {NoConversation, "c1", "gone"}, p \in {Undefined, "p7"},
        m \in 0..MaxOptIterations}
    \cup
    {[conversation_id |-> NoConversation, wordpress_context |-> "p7", maxIterations |-> 1,
      plan |-> TRUE, onPlanGenerated |-> cb, userMessage |-> UserMessage,
      enabled_tools |-> {}] : cb \in BOOLEAN}
    \cup
    {[conversation_id |-> NoConversation, wordpress_context |-> Undefined, maxIterations |-> 1,
      plan |-> FALSE, onPlanGenerated |-> FALSE, userMessage |-> UserMessage,
      enabled_tools |-> {"get_theme_info"}]}

InitLoop ==
    /\ conversations = MapSet(EmptyMap, "c1", StoredConversation)
    /\ turn = IdleTurn
    /\ peer = IdleTurn
    /\ client = IdleClient
    /\ subAgent = IdleSubAgent
    /\ res = NoRequest
    /\ retry = NoRetry
    /\ stamps = EmptyMap
    /\ pendingRequests = EmptyMap
    /\ futures = <<>>
    /\ cleanupInterval = TRUE
    /\ nextSweep = cleanupIntervalMs
    /\ now = 0
    /\ lastOp = NoCall

TurnStep ==
    \/ \E m \in 0..MaxOptIterations : StartBlocking(m)
    \/ \E opts \in StreamOptions : StartStream(opts)
    \/ PlanGatewayReturns
    \/ PlanGatewayFails
    \/ \E planApproved \in BOOLEAN : PlanApproval(planApproved)
    \/ \E full \in BOOLEAN : PageContextReturns(full)
    \/ \E stop \in StopReasons, names \in SeqsUpTo(ToolNames, MaxToolCalls) :
          GatewayResponds(stop, names)
    \/ GatewayFails
    \/ HandlerReturns
    \/ HandlerThrows
    \/ AwaitSettles

\* the live editor, the timers and the clock while a deferred result is awaited
BrokerStep ==
    \/ \E r \in DOMAIN pendingRequests, data \in Payloads :
          turn.pc = "await" /\ ResolvePendingRequest(r, data)
    \/ \E r \in DOMAIN pendingRequests : turn.pc = "await" /\ RejectPendingRequest(r)
    \/ \E f \in DOMAIN futures : turn.pc = "await" /\ TimeoutFires(f)
    \/ turn.pc = "await" /\ SweepFires
    \/ turn.pc = "await" /\ Tick

NextLoop == TurnStep \/ BrokerStep

SpecLoop == InitLoop /\ [][NextLoop]_vars

\* ======================================== POST /agent/process-stream
\* the SSE events written to the response: those of the callbacks the route
\* registers (each is a sendEvent), then what the route's catch writes itself
StreamOf(t, r) == [i \in 1..Len(t.events) |-> t.events[i].type] \o r.written

\* the route registers onIterationStart, onToolCall, onToolResult,
\* onFinalResponse and onError, and no onPlanGenerated; the options of the
\* body carry a maxIterations of 1..MaxOptIterations
RouteOptions ==
    {opts \in StreamOptions : ~opts.onPlanGenerated /\ opts.maxIterations # 0}

\* a catch of the route that writes the error event and leaves the response open
RouteCatchLeavesOpen(headersSent) ==
    IF ~headersSent
    THEN [phase |-> "closed", status |-> 500, written |-> <<>>, ended |-> TRUE]
    ELSE [phase |-> "closed", status |-> 200, written |-> <<"error">>, ended |-> FALSE]

\* the catch of the route: a JSON 500 if nothing was written yet, otherwise an
\* error event and res.end()
RouteCatch(headersSent) ==
    IF ~headersSent
    THEN [phase |-> "closed", status |-> 500, written |-> <<>>, ended |-> TRUE]
    ELSE [phase |-> "closed", status |-> 200, written |-> <<"error">>, ended |-> TRUE]

RouteFrame ==
    UNCHANGED <<pendingRequests, futures, cleanupInterval, nextSweep, now, lastOp,
                conversations, turn, peer, client, subAgent, stamps, retry>>

\* the body has no message, or the orchestrator is not initialized: AppError
\* thrown before anything is written
RouteRejects ==
    /\ res.phase = "idle"
    /\ turn.pc = "idle"
    /\ res' = RouteCatch(FALSE)
    /\ RouteFrame

\* the request is accepted: processRequestStream is called with the callbacks
RouteStarts(opts) ==
    /\ res.phase = "idle"
    /\ StartStream(opts)

\* await processRequestStream returns: res.end()
RouteReturns ==
    /\ res.phase = "idle"
    /\ turn.mode = "stream"
    /\ turn.pc = "done"
    /\ res' = [phase |-> "closed", status |-> 200, written |-> <<>>, ended |-> TRUE]
    /\ RouteFrame

\* await processRequestStream throws
RouteCatches ==
    /\ res.phase = "idle"
    /\ turn.mode = "stream"
    /\ turn.pc = "failed"
    /\ res' = RouteCatch(turn.events # <<>>)
    /\ RouteFrame

\* the gateway, the page-context service and the remote handlers answer
StreamTurnStep ==
    \/ PlanGatewayReturns
    \/ PlanGatewayFails
    \/ \E full \in BOOLEAN : PageContextReturns(full)
    \/ \E stop \in StopReasons, names \in SeqsUpTo(ToolNames, MaxToolCalls) :
          GatewayResponds(stop, names)
    \/ GatewayFails
    \/ HandlerReturns
    \/ HandlerThrows
    \/ AwaitSettles

\* the live editor replies, or not
StreamEditorStep ==
    \/ \E r \in DOMAIN pendingRequests, data \in Payloads :
          turn.pc = "await" /\ ResolvePendingRequest(r, data)
    \/ \E r \in DOMAIN pendingRequests : turn.pc = "await" /\ RejectPendingRequest(r)

\* the awaited future is still pending
AwaitPending == turn.pc = "await" /\ futures[turn.awaiting].state = "pending"

\* the timers and the clock while a deferred result is awaited
StreamTimerStep ==
    \/ \E f \in DOMAIN futures : AwaitPending /\ TimeoutFires(f)
    \/ AwaitPending /\ SweepFires
    \/ AwaitPending /\ Tick

RouteStep == RouteReturns \/ RouteCatches

NextStream ==
    \/ RouteRejects
    \/ \E opts \in RouteOptions : RouteStarts(opts)
    \/ StreamTurnStep
    \/ StreamEditorStep
    \/ StreamTimerStep
    \/ RouteStep

\* every awaited call of the turn settles, timers fire and time passes, and
\* the route's continuation runs; the live editor is under no obligation
SpecStream ==
    /\ InitLoop
    /\ [][NextStream]_vars
    /\ WF_vars(StreamTurnStep)
    /\ WF_vars(StreamTimerStep)
    /\ WF_vars(RouteStep)

\* ======================================== two streaming turns, interleaved
\* the two calls of processRequestStream in progress
TurnOf(k) == IF k = 1 THEN turn ELSE peer

\* conversationHistory kept on the orchestrator and shared by its calls
OtherTurnSharesHistory(other, w) ==
    IF other.pc \in {"idle", "done", "failed"} THEN other
    ELSE [other EXCEPT !.conversationHistory = w.t.conversationHistory]

\* what a step of one call does to the locals of the other call:
\* conversationHistory is a const of the call, not a field of the orchestrator
OtherTurn(other, w) == other

ApplyTurn(k, w) ==
    /\ turn' = IF k = 1 THEN w.t ELSE OtherTurn(turn, w)
    /\ peer' = IF k = 2 THEN w.t ELSE OtherTurn(peer, w)
    /\ conversations' = w.store
    /\ pendingRequests' = w.pending
    /\ futures' = w.futs
    /\ lastOp' = NoCall
    /\ UNCHANGED <<cleanupInterval, nextSweep, now, client, subAgent, res, stamps, retry>>

\* the message of each of the two requests
UserMessageOf(k) == IF k = 1 THEN "message-1" ELSE "message-2"

\* the options of the two requests: a new conversation or the stored one,
\* without a page, on the page the stored conversation knows or on another
\* one, a ceiling of 1..MaxOptIterations, no plan
TurnOptions(k) ==
    {[conversation_id |-> c, wordpress_context |-> p, maxIterations |-> m,
      plan |-> FALSE, onPlanGenerated |-> FALSE, userMessage |-> UserMessageOf(k),
      enabled_tools |-> {}] :
        c \in {NoConversation, "c1"}, p \in {Undefined, "p7", "p9"},
        m \in 1..MaxOptIterations}

TurnStarts(k, opts) ==
    /\ TurnOf(k).pc = "idle"
    /\ ApplyTurn(k, OpenConversation(
          World([IdleTurn EXCEPT !.mode = "stream", !.opts = opts,
                                 !.before = conversations])))

TurnPageContextReturns(k, full) ==
    /\ TurnOf(k).pc = "pageContext"
    /\ ApplyTurn(k, PageContextAnswer(World(TurnOf(k)), full))

TurnGatewayResponds(k, stop, names) ==
    /\ TurnOf(k).pc = "gateway"
    /\ Len(names) <= MaxTurnToolCalls - TurnOf(k).toolUseSeq
    /\ ApplyTurn(k, GatewayAnswer(World(TurnOf(k)), stop, names))

TurnGatewayFails(k) ==
    /\ TurnOf(k).pc = "gateway"
    /\ ApplyTurn(k, Fail(World(TurnOf(k)), "gateway"))

TurnHandlerReturns(k) ==
    /\ TurnOf(k).pc = "handler"
    /\ ApplyTurn(k, CompleteCall(World(TurnOf(k)), ThemeInfo))

TurnHandlerThrows(k) ==
    /\ TurnOf(k).pc = "handler"
    /\ ApplyTurn(k, FailCall(World(TurnOf(k)), "handler failed"))

InitTurns ==
    /\ conversations = MapSet(EmptyMap, "c1", StoredConversation)
    /\ turn = IdleTurn
    /\ peer = IdleTurn
    /\ client = IdleClient
    /\ subAgent = IdleSubAgent
    /\ res = NoRequest
    /\ retry = NoRetry
    /\ stamps = EmptyMap
    /\ pendingRequests = EmptyMap
    /\ futures = <<>>
    /\ cleanupInterval = TRUE
    /\ nextSweep = cleanupIntervalMs
    /\ now = 0
    /\ lastOp = NoCall

NextTurns ==
    \/ \E k \in 1..2 : \E opts \in TurnOptions(k) : TurnStarts(k, opts)
    \/ \E k \in 1..2, full \in BOOLEAN : TurnPageContextReturns(k, full)
    \/ \E k \in 1..2, stop \in StopReasons, names \in SeqsUpTo({"get_theme_info"}, 1) :
          TurnGatewayResponds(k, stop, names)
    \/ \E k \in 1..2 : TurnGatewayFails(k)
    \/ \E k \in 1..2 : TurnHandlerReturns(k)
    \/ \E k \in 1..2 : TurnHandlerThrows(k)

SpecTurns == InitTurns /\ [][NextTurns]_vars

\* ================================================= the store called directly
\* what a caller stores, besides the two messages of the stored conversation
Messages == {TextMessage("assistant", "m1", Undefined)}

\* a getHistory that returns conversation.history itself
GetHistoryArrayShared(store, id) ==
    HeldArray(GetHistory(store, id), IF id \in DOMAIN store THEN id ELSE NoConversation)

\* getHistory(conversationId): `[...conversation.history]`, or `[]`
GetHistoryArray(store, id) == HeldArray(GetHistory(store, id), NoConversation)

\* the held array after the store pushed onto the history array of id
HeldAfterPush(held, store, id) ==
    IF held.alias = id THEN HeldArray(store[id].history, id) ELSE held

\* the held array after `conversation.history = []` of id: the store has a new
\* array, the held one is no longer the stored one
HeldAfterClear(held, id) ==
    IF held.alias = id THEN HeldArray(held.items, NoConversation) ELSE held

\* the store after the caller changed the array it holds
StoreAfterHeld(store, held) ==
    IF held.alias # NoConversation
    THEN [store EXCEPT ![held.alias].history = held.items]
    ELSE store

Call(op, id, threw) ==
    [client EXCEPT !.op = op, !.id = id, !.threw = threw, !.roundTrip = FALSE]

StoreFrame ==
    UNCHANGED <<pendingRequests, futures, cleanupInterval, nextSweep, now, lastOp, turn, peer,
                subAgent, res, retry>>

StoreGetHistory(id) ==
    /\ stamps' = Accessed(Touch(stamps, id, now), id, now)
    /\ conversations' = conversations
    /\ client' = [Call("getHistory", id, FALSE) EXCEPT
                     !.held = GetHistoryArray(conversations, id),
                     !.from = id,
                     !.loaded = GetHistory(conversations, id),
                     !.pushed = <<>>,
                     !.changed = FALSE]
    /\ StoreFrame

\* an addMessage that creates the conversation it does not find
StoreAddMessageUpserts(id, message) ==
    /\ stamps' = IF NotFound(conversations, id) THEN StampCreated(stamps, id, now)
                 ELSE Accessed(Touch(stamps, id, now), id, now)
    /\ LET store == IF NotFound(conversations, id)
                    THEN CreateConversation(conversations, id, Undefined)
                    ELSE conversations
       IN  /\ conversations' = AddMessage(store, id, message)
           /\ client' = [Call("addMessage", id, FALSE) EXCEPT
                            !.held = HeldAfterPush(@, conversations', id)]
    /\ StoreFrame

StoreAddMessage(id, message) ==
    /\ stamps' = Accessed(Touch(stamps, id, now), id, now)
    /\ IF NotFound(conversations, id)
       THEN /\ conversations' = conversations
            /\ client' = Call("addMessage", id, TRUE)
       ELSE /\ conversations' = AddMessage(conversations, id, message)
            /\ client' = [Call("addMessage", id, FALSE) EXCEPT
                             !.held = HeldAfterPush(@, conversations', id)]
    /\ StoreFrame

\* addMessages called right after a clearHistory of the conversation the held
\* array was loaded from, with that array, to which the caller only appended
IsWriteBack(id, messages) ==
    /\ client.op = "clearHistory"
    /\ ~client.threw
    /\ client.id = id
    /\ client.from = id
    /\ ~client.changed
    /\ messages = client.held.items

StoreAddMessages(id, messages) ==
    /\ stamps' = Accessed(Touch(stamps, id, now), id, now)
    /\ IF NotFound(conversations, id)
       THEN /\ conversations' = conversations
            /\ client' = Call("addMessages", id, TRUE)
       ELSE /\ conversations' = AddMessages(conversations, id, messages)
            /\ client' = [Call("addMessages", id, FALSE) EXCEPT
                             !.held = HeldAfterPush(@, conversations', id),
                             !.roundTrip = IsWriteBack(id, messages)]
    /\ StoreFrame

StoreClearHistory(id) ==
    /\ stamps' = Accessed(Touch(stamps, id, now), id, now)
    /\ IF NotFound(conversations, id)
       THEN /\ conversations' = conversations
            /\ client' = Call("clearHistory", id, TRUE)
       ELSE /\ conversations' = ClearHistory(conversations, id)
            /\ client' = [Call("clearHistory", id, FALSE) EXCEPT
                             !.held = HeldAfterClear(@, id)]
    /\ StoreFrame

\* the caller appends to the array it holds (conversationHistory.push)
ClientPush(message) ==
    /\ UNCHANGED stamps
    /\ client.op # "none"
    /\ Len(client.held.items) < MaxHistory
    /\ LET held == HeldArray(Append(client.held.items, message), client.held.alias)
       IN  /\ client' = [Call("push", client.id, FALSE) EXCEPT
                            !.held = held,
                            !.pushed = IF client.changed THEN @ ELSE Append(@, message)]
           /\ conversations' = StoreAfterHeld(conversations, held)
    /\ StoreFrame

\* the caller removes the last item of the array it holds
ClientPop ==
    /\ UNCHANGED stamps
    /\ Len(client.held.items) > 0
    /\ LET held == HeldArray(SubSeq(client.held.items, 1, Len(client.held.items) - 1),
                             client.held.alias)
       IN  /\ client' = [Call("pop", client.id, FALSE) EXCEPT
                            !.held = held, !.changed = TRUE,
                            !.loaded = <<>>, !.pushed = <<>>]
           /\ conversations' = StoreAfterHeld(conversations, held)
    /\ StoreFrame

\* ids a caller names: the stored conversation and one that does not exist
StoreIds == {"c1", "gone"}

\* room left in the stored history of id
HasRoom(id, n) == Len(GetHistory(conversations, id)) + n <= MaxHistory

\* the stored conversation was created at instant 0, an hour before the caller
\* starts
InitStore ==
    /\ conversations = MapSet(EmptyMap, "c1", StoredConversation)
    /\ turn = IdleTurn
    /\ peer = IdleTurn
    /\ client = IdleClient
    /\ subAgent = IdleSubAgent
    /\ res = NoRequest
    /\ retry = NoRetry
    /\ stamps = StampCreated(EmptyMap, "c1", 0)
    /\ pendingRequests = EmptyMap
    /\ futures = <<>>
    /\ cleanupInterval = TRUE
    /\ nextSweep = cleanupIntervalMs
    /\ now = CLEANUP_INTERVAL
    /\ lastOp = NoCall

NextStore ==
    \/ \E id \in StoreIds : StoreGetHistory(id)
    \/ \E id \in StoreIds, message \in Messages :
          HasRoom(id, 1) /\ StoreAddMessage(id, message)
    \/ \E id \in StoreIds, messages \in {client.held.items} \cup SeqsUpTo(Messages, 1) :
          (HasRoom(id, Len(messages)) \/ IsWriteBack(id, messages))
             /\ StoreAddMessages(id, messages)
    \/ \E id \in StoreIds : StoreClearHistory(id)
    \/ \E message \in Messages : ClientPush(message)
    \/ ClientPop

SpecStore == InitStore /\ [][NextStore]_vars

\* ================================================== the idle sweep of the store
\* what every action of the store on its own leaves alone
IdleFrame ==
    UNCHANGED <<pendingRequests, futures, cleanupInterval, lastOp, turn, peer, client,
                subAgent, res, retry>>

\* createConversation(metadata)
IdleCreate(metadata) ==
    /\ Cardinality(DOMAIN conversations) < MaxConversations
    /\ LET id == FreshConversationId(conversations)
       IN  /\ conversations' = CreateConversation(conversations, id, metadata)
           /\ stamps' = StampCreated(stamps, id, now)
    /\ UNCHANGED <<now, nextSweep>>
    /\ IdleFrame

\* getHistory(id): the stamp of a stored conversation is refreshed
IdleGetHistory(id) ==
    /\ conversations' = conversations
    /\ stamps' = Accessed(Touch(stamps, id, now), id, now)
    /\ UNCHANGED <<now, nextSweep>>
    /\ IdleFrame

\* addMessage(id, message); throws and changes nothing when id is unknown
IdleAddMessage(id, message) ==
    /\ conversations' = IF NotFound(conversations, id) THEN conversations
                        ELSE AddMessage(conversations, id, message)
    /\ stamps' = Accessed(Touch(stamps, id, now), id, now)
    /\ UNCHANGED <<now, nextSweep>>
    /\ IdleFrame

\* addMessages(id, messages)
IdleAddMessages(id, messages) ==
    /\ conversations' = IF NotFound(conversations, id) THEN conversations
                        ELSE AddMessages(conversations, id, messages)
    /\ stamps' = Accessed(Touch(stamps, id, now), id, now)
    /\ UNCHANGED <<now, nextSweep>>
    /\ IdleFrame

\* clearHistory(id)
IdleClearHistory(id) ==
    /\ conversations' = IF NotFound(conversations, id) THEN conversations
                        ELSE ClearHistory(conversations, id)
    /\ stamps' = Accessed(Touch(stamps, id, now), id, now)
    /\ UNCHANGED <<now, nextSweep>>
    /\ IdleFrame

\* updateMetadata(id, metadata)
IdleUpdateMetadata(id, metadata) ==
    /\ conversations' = IF NotFound(conversations, id) THEN conversations
                        ELSE UpdateMetadata(conversations, id, metadata)
    /\ stamps' = Accessed(Touch(stamps, id, now), id, now)
    /\ UNCHANGED <<now, nextSweep>>
    /\ IdleFrame

\* the setInterval callback of startCleanupInterval at instant now
IdleSweepFires ==
    /\ nextSweep <= now
    /\ conversations' = Swept(conversations, stamps, now)
    /\ stamps' = Swept(stamps, stamps, now)
    /\ nextSweep' = nextSweep + CLEANUP_INTERVAL
    /\ UNCHANGED now
    /\ IdleFrame

\* an hour passes; the interval callback runs before the next one does
IdleClock ==
    /\ now < nextSweep
    /\ now < MaxSweepHours * CLEANUP_INTERVAL
    /\ now' = now + CLEANUP_INTERVAL
    /\ UNCHANGED <<conversations, stamps, nextSweep>>
    /\ IdleFrame

\* ids a caller reads: the two conversations made at construction, one made
\* later, and one that does not exist
IdleIds == {"c1", "u1", "u2", "gone"}

\* ids a caller writes to
IdleWriteIds == {"c1", "gone"}

\* the manager holds two conversations, made at instant 0 when the interval was
\* armed; one has a message
InitIdle ==
    /\ conversations =
          MapSet(MapSet(EmptyMap, "c1", [history |-> <<TextMessage("assistant", "m1", Undefined)>>, metadata |-> Undefined]),
                 "u1", [history |-> <<>>, metadata |-> Undefined])
    /\ stamps = StampCreated(StampCreated(EmptyMap, "c1", 0), "u1", 0)
    /\ turn = IdleTurn
    /\ peer = IdleTurn
    /\ client = IdleClient
    /\ subAgent = IdleSubAgent
    /\ res = NoRequest
    /\ retry = NoRetry
    /\ pendingRequests = EmptyMap
    /\ futures = <<>>
    /\ cleanupInterval = TRUE
    /\ nextSweep = CLEANUP_INTERVAL
    /\ now = 0
    /\ lastOp = NoCall

NextIdle ==
    \/ IdleCreate(Undefined)
    \/ \E id \in IdleIds : IdleGetHistory(id)
    \/ \E id \in IdleWriteIds, message \in Messages :
          Len(GetHistory(conversations, id)) < MaxHistory
             /\ IdleAddMessage(id, message)
    \/ \E id \in IdleWriteIds, messages \in SeqsUpTo(Messages, 2) :
          Len(GetHistory(conversations, id)) + Len(messages) <= MaxHistory
             /\ IdleAddMessages(id, messages)
    \/ \E id \in IdleWriteIds : IdleClearHistory(id)
    \/ \E id \in IdleWriteIds : IdleUpdateMetadata(id, "p9")
    \/ IdleSweepFires
    \/ IdleClock

SpecIdle == InitIdle /\ [][NextIdle]_vars

\* ============================ validateAndRetry(toolName, toolInput, maxRetries)
RetryFrame ==
    UNCHANGED <<pendingRequests, futures, cleanupInterval, nextSweep, now, lastOp,
                conversations, turn, peer, client, subAgent, res, stamps>>

\* maxRetries = 3 when the argument is not passed
MaxRetriesOf(given, maxRetries) == IF given THEN maxRetries ELSE DefaultMaxRetries

\* messages of the errors executeTool throws
RetryErrors == {"unknown tool", "handler failed"}

\* values executeTool returns: a handler's result, and the failure object of a
\* deferred result whose promise was rejected
RetryResults ==
    {ThemeInfo, FailureResult(BlocksStructureCommand(1, 1), "Request timed out")}

\* the code after the for loop: one AppError built from lastError.message; a
\* loop that never ran leaves lastError null and reading .message throws a
\* TypeError instead
RetryGivesUp(r) ==
    [r EXCEPT !.pc = "threw", !.raised = @ + 1,
              !.error = IF r.lastError = Undefined THEN "TypeError" ELSE r.lastError]

\* for (let attempt = 1; attempt <= maxRetries; attempt++): the loop test, up
\* to the call of executeTool
RetryLoopTop(r) ==
    IF r.attempt <= r.maxRetries
    THEN [r EXCEPT !.pc = "attempt", !.attempts = @ + 1]
    ELSE RetryGivesUp(r)

\* a catch that waits before it looks at the attempt number
RetryCatchWaitsFirst(r, message) ==
    [r EXCEPT !.lastError = message,
              !.failures = Append(@, message),
              !.pc = "wait",
              !.waits = Append(@, 1000 * r.attempt)]

\* the catch of one attempt: lastError, then break on the last attempt or the
\* backoff timer of 1000 * attempt ms
RetryCatch(r, message) ==
    LET r1 == [r EXCEPT !.lastError = message, !.failures = Append(@, message)]
    IN  IF r.attempt = r.maxRetries
        THEN RetryGivesUp(r1)
        ELSE [r1 EXCEPT !.pc = "wait", !.waits = Append(@, 1000 * r.attempt)]

\* validateAndRetry is called
ValidateAndRetry(given, maxRetries) ==
    /\ retry.pc = "idle"
    /\ retry' = RetryLoopTop([NoRetry EXCEPT !.given = given,
                                             !.maxRetries = MaxRetriesOf(given, maxRetries),
                                             !.attempt = 1])
    /\ RetryFrame

\* `return await this.executeTool(toolName, toolInput)` returns
RetryAttemptReturns(result) ==
    /\ retry.pc = "attempt"
    /\ retry' = [retry EXCEPT !.pc = "returned", !.result = result]
    /\ RetryFrame

\* executeTool throws
RetryAttemptThrows(message) ==
    /\ retry.pc = "attempt"
    /\ retry' = RetryCatch(retry, message)
    /\ RetryFrame

\* the backoff timer fires: attempt++ and the loop test
RetryWaitElapses ==
    /\ retry.pc = "wait"
    /\ retry' = RetryLoopTop([retry EXCEPT !.attempt = @ + 1])
    /\ RetryFrame

InitRetry ==
    /\ conversations = EmptyMap
    /\ stamps = EmptyMap
    /\ turn = IdleTurn
    /\ peer = IdleTurn
    /\ client = IdleClient
    /\ subAgent = IdleSubAgent
    /\ res = NoRequest
    /\ retry = NoRetry
    /\ pendingRequests = EmptyMap
    /\ futures = <<>>
    /\ cleanupInterval = TRUE
    /\ nextSweep = cleanupIntervalMs
    /\ now = 0
    /\ lastOp = NoCall

NextRetry ==
    \/ \E maxRetries \in 0..MaxRetries : ValidateAndRetry(TRUE, maxRetries)
    \/ ValidateAndRetry(FALSE, 0)
    \/ \E result \in RetryResults : RetryAttemptReturns(result)
    \/ \E message \in RetryErrors : RetryAttemptThrows(message)
    \/ RetryWaitElapses

SpecRetry == InitRetry /\ [][NextRetry]_vars

\* ======================================================= delegate_to_subagent
\* the tool getSubAgentTools builds
DelegationTool == "delegate_to_subagent"

\* an agentsConfig whose roles list every tool of the main catalog
AllowedToolsEveryTool(agent) ==
    IF agent \in {"seo", "copywriting", "design"}
    THEN {"get_page_summary", "update_post_title", "create_post", "update_global_styles",
          "insert_pattern", "get_theme_info", "get_blocks_structure", "delegate_to_subagent"}
    ELSE {}

\* agentsConfig[agent].tools
AllowedTools(agent) ==
    IF agent = "seo"
    THEN {"get_page_summary", "get_blocks_structure", "inspect_block_schema",
          "update_post_title", "update_block_by_clientid", "update_block_by_agent_id",
          "insert_block_realtime"}
    ELSE IF agent = "copywriting"
    THEN {"discover_available_blocks", "get_page_summary", "get_blocks_structure",
          "inspect_block_schema", "get_patterns", "get_pattern_details",
          "insert_block_realtime", "insert_pattern", "create_post",
          "update_block_by_clientid", "update_block_by_agent_id",
          "replace_block_realtime", "replace_block_by_agent_id"}
    ELSE IF agent = "design"
    THEN {"discover_available_blocks", "get_theme_design_system", "get_page_summary",
          "get_blocks_structure", "inspect_block_schema", "get_block_attributes_group",
          "get_patterns", "get_pattern_details", "update_block_by_clientid",
          "update_block_by_agent_id", "insert_pattern", "swap_pattern",
          "update_global_styles"}
    ELSE {}

\* the keys of agentsConfig
Agents == {"seo", "copywriting", "design"}

\* tools of the main catalog the delegation tool may be built with: one every
\* role has, one for each single role, one two roles share, one no role has,
\* the live-editor tool with a deferred result, which every role has, and the
\* delegation tool itself
ToolUniverse ==
    {"get_page_summary", "update_post_title", "create_post", "update_global_styles",
     "insert_pattern", "get_theme_info", "get_blocks_structure", DelegationTool}

\* the main catalogs the delegation tool is built with: every tool of the
\* universe, or all but one
MainCatalogs == {ToolUniverse \ S : S \in {T \in SUBSET ToolUniverse : Cardinality(T) <= 1}}

\* a delegation that hands the whole main catalog to the sub-agent
AgentToolsUnfiltered(allTools, agent) == allTools

\* allTools.filter(tool => agentConfig.tools.includes(tool.name))
AgentTools(allTools, agent) == {name \in allTools : name \in AllowedTools(agent)}

\* what a step of the sub-agent reads and writes: its locals and the broker
SubWorld(sa) == [sa |-> sa, pending |-> pendingRequests, futs |-> futures]

\* the main loop inside executeTool, at `await tool.handler(toolInput)` of a
\* call of delegate_to_subagent the gateway made in its first answer
DelegatingTurn ==
    LET response == GatewayResponse("tool_use", 1, <<DelegationTool>>, 0)
        call == ExtractToolCalls(response)[1]
    IN  [IdleTurn EXCEPT
            !.mode = "stream", !.pc = "handler",
            !.conversationHistory = <<TextMessage("user", UserMessage, Undefined),
                                      BlocksMessage("assistant", response.content)>>,
            !.iterations = 1, !.gatewayCalls = 1,
            !.maxIterations = DefaultMaxIterations,
            !.response = response, !.toolCalls = <<call>>, !.toolUseSeq = 1,
            !.events = <<Event("iteration_start", "", TRUE, NoResult, "", 1),
                         Event("tool_call", call.name, TRUE, NoResult, "", call.id)>>,
            !.dispatched = <<call.id>>, !.invoked = {call.name}]

\* what the handler of delegate_to_subagent returns: success: true with the
\* sub-agent's payload, or success: false when execute threw
DelegationResult(sa) ==
    [NoResult EXCEPT !.success = IF sa.success THEN "true" ELSE "false",
                     !.message = IF sa.success THEN "completed" ELSE "failed",
                     !.error = IF sa.success THEN Undefined ELSE "gateway"]

\* a main loop that gets a success result from a handler that threw
MainLoopAfterSwallowsThrow(sa) ==
    IF turn.pc # "handler" \/ sa.pc \notin {"threw", "done"} THEN turn
    ELSE CompleteCall(World(turn), [NoResult EXCEPT !.success = "true"]).t

\* the main loop once the handler of delegate_to_subagent has settled:
\* executeTool returns its result, or its throw reaches the catch of the call
MainLoopAfter(sa) ==
    IF turn.pc # "handler" THEN turn
    ELSE IF sa.pc = "threw"
    THEN FailCall(World(turn), "Unknown agent: " \o sa.agent).t
    ELSE IF sa.pc = "done"
    THEN CompleteCall(World(turn), DelegationResult(sa)).t
    ELSE turn

ApplySub(w) ==
    /\ subAgent' = w.sa
    /\ turn' = MainLoopAfter(w.sa)
    /\ pendingRequests' = w.pending
    /\ futures' = w.futs
    /\ lastOp' = NoCall
    /\ UNCHANGED <<cleanupInterval, nextSweep, now, conversations, peer, client, res, stamps, retry>>

\* what execute returns: { success: true, agent, message, iterations,
\* toolsExecuted }
SubAgentPayload(sa, message) ==
    [returned |-> TRUE, success |-> TRUE, message |-> message,
     iterations |-> sa.iterations, toolsExecuted |-> sa.toolsExecuted]

\* the code after the sub-agent's loop
SubAgentReturns(sa) ==
    [sa EXCEPT !.pc = "done", !.success = TRUE,
               !.payload = SubAgentPayload(sa, IF sa.finalText = Undefined
                                               THEN NoResponseGenerated
                                               ELSE sa.finalText)]

\* a loop whose test is iterations <= maxIterations
SubAgentLoopTopOffByOne(sa) ==
    IF sa.continueLoop /\ sa.iterations <= SubAgentMaxIterations
    THEN [sa EXCEPT !.iterations = @ + 1, !.gatewayCalls = @ + 1, !.pc = "gateway"]
    ELSE SubAgentReturns(sa)

\* the sub-agent's while (continueLoop && iterations < maxIterations), up to
\* its sendMessage with tools: toolsForAnthropic
SubAgentLoopTop(sa) ==
    IF sa.continueLoop /\ sa.iterations < SubAgentMaxIterations
    THEN [sa EXCEPT !.iterations = @ + 1, !.gatewayCalls = @ + 1, !.pc = "gateway"]
    ELSE SubAgentReturns(sa)

\* the handler of delegate_to_subagent up to the first gateway call of
\* subAgent.execute(task, context, agentTools)
Delegate(agent, allTools) ==
    /\ subAgent.pc = "idle"
    /\ IF agent \notin Agents
       THEN ApplySub(SubWorld([subAgent EXCEPT !.pc = "threw", !.agent = agent,
                                               !.allTools = allTools]))
       ELSE ApplySub(SubWorld(SubAgentLoopTop(
                [subAgent EXCEPT !.agent = agent, !.allTools = allTools,
                                 !.catalog = AgentTools(allTools, agent)])))

\* a lookup of the handler in the main catalog
FindsInMainCatalog(sa, name) == name \in sa.allTools

\* tools.find(t => t.name === toolCall.name) over the tools execute was given
FindsTool(sa, name) == name \in sa.catalog

\* a tool_result block pushed by the sub-agent; fut is the promise left in the
\* result it stringified, 0 if none
SubAgentResult(id, isError, fut) == [tool_use_id |-> id, is_error |-> isError, fut |-> fut]

\* a call the sub-agent has gone through, and how it ended
SubAgentCall(id, name, iteration, outcome) ==
    [id |-> id, name |-> name, iteration |-> iteration, outcome |-> outcome]

\* 'Tool not available' thrown and caught: an is_error result, no handler
CallUnavailable(w, id, name) ==
    [w EXCEPT !.sa.results = Append(@, SubAgentResult(id, TRUE, 0)),
              !.sa.refused = @ \cup {name},
              !.sa.calls = Append(@, SubAgentCall(id, name, w.sa.iterations, "unavailable"))]

\* the handler throws: an is_error result, nothing pushed on toolResults
CallThrows(w, id, name) ==
    [w EXCEPT !.sa.results = Append(@, SubAgentResult(id, TRUE, 0)),
              !.sa.invoked = Append(@, id),
              !.sa.calls = Append(@, SubAgentCall(id, name, w.sa.iterations, "threw"))]

\* the handler returns: a tool_result with JSON.stringify(result), and the
\* call pushed on toolResults
CallCompletes(w, id, name, fut) ==
    [w EXCEPT !.sa.results = Append(@, SubAgentResult(id, FALSE, fut)),
              !.sa.invoked = Append(@, id),
              !.sa.executed = @ \cup {name},
              !.sa.toolsExecuted = Append(@, name),
              !.sa.calls = Append(@, SubAgentCall(id, name, w.sa.iterations, "ok"))]

\* the handler of get_blocks_structure registers a pending request and
\* returns a result with _awaitResult; the sub-agent stringifies it as it is
CallDeferred(w, id, name) ==
    LET requestId == Len(w.futs) + 1
        fut == Len(w.futs) + 1
        w1 == [w EXCEPT !.pending = CreatedPending(w.pending, w.futs, requestId, now),
                        !.futs = CreatedFutures(w.pending, w.futs, requestId, HandlerTimeout, now)]
    IN  CallCompletes(w1, id, name, fut)

RECURSIVE SubAgentRunToolCalls(_, _, _, _)

\* for (const toolCall of toolCalls): names are the calls of the response,
\* throws tells which handlers throw, k is the call reached
SubAgentRunToolCalls(w, names, throws, k) ==
    IF k > Len(names)
    THEN [w EXCEPT !.sa = SubAgentLoopTop([@ EXCEPT !.toolCalls = @ + Len(names)])]
    ELSE LET id == w.sa.toolCalls + k
             name == names[k]
         IN  SubAgentRunToolCalls(
                IF ~FindsTool(w.sa, name) THEN CallUnavailable(w, id, name)
                ELSE IF name = "get_blocks_structure" THEN CallDeferred(w, id, name)
                ELSE IF throws[k] THEN CallThrows(w, id, name)
                ELSE CallCompletes(w, id, name, 0),
                names, throws, k + 1)

\* the gateway answers tool_use with the calls names
SubAgentToolUse(names, throws) ==
    /\ subAgent.pc = "gateway"
    /\ names # <<>>
    /\ Len(names) <= MaxSubAgentCalls - subAgent.toolCalls
    /\ \A k \in 1..Len(names) :
          throws[k] => FindsTool(subAgent, names[k]) /\ names[k] # "get_blocks_structure"
    /\ ApplySub(SubAgentRunToolCalls(SubWorld(subAgent), names, throws, 1))

\* the gateway answers tool_use with no call in it
SubAgentEmptyToolUse ==
    /\ subAgent.pc = "gateway"
    /\ ApplySub(SubWorld(SubAgentLoopTop(subAgent)))

\* the gateway answers end_turn or another stop reason
SubAgentFinalResponse ==
    /\ subAgent.pc = "gateway"
    /\ ApplySub(SubWorld(SubAgentLoopTop(
          [subAgent EXCEPT !.continueLoop = FALSE,
                           !.finalAt = subAgent.gatewayCalls,
                           !.finalText = "text-" \o ToString(subAgent.gatewayCalls)])))

\* sendMessage throws: execute rethrows, the handler returns success: false
SubAgentGatewayFails ==
    /\ subAgent.pc = "gateway"
    /\ ApplySub(SubWorld([subAgent EXCEPT !.pc = "done", !.success = FALSE,
                                          !.executeThrew = TRUE]))

\* a promise of a sub-agent's dispatch is pending
SubAgentFuturePending == \E f \in DOMAIN futures : futures[f].state = "pending"

\* the calls the gateway makes inside a sub-agent: a tool of the SEO list
\* only, one of the design list only, the deferred one, the delegation tool
\* and an unknown one
SubAgentToolNames ==
    {"update_post_title", "update_global_styles", "get_blocks_structure", DelegationTool,
     "no_such_tool"}

InitDelegate ==
    /\ conversations = EmptyMap
    /\ turn = DelegatingTurn
    /\ peer = IdleTurn
    /\ client = IdleClient
    /\ subAgent = IdleSubAgent
    /\ res = NoRequest
    /\ retry = NoRetry
    /\ stamps = EmptyMap
    /\ pendingRequests = EmptyMap
    /\ futures = <<>>
    /\ cleanupInterval = TRUE
    /\ nextSweep = cleanupIntervalMs
    /\ now = 0
    /\ lastOp = NoCall

NextDelegate ==
    \/ \E agent \in Agents \cup {"unknown"}, allTools \in MainCatalogs :
          Delegate(agent, allTools)
    \/ \E names \in SeqsUpTo(SubAgentToolNames, MaxSubAgentCalls) :
          \E throws \in [1..Len(names) -> BOOLEAN] : SubAgentToolUse(names, throws)
    \/ SubAgentEmptyToolUse
    \/ SubAgentFinalResponse
    \/ SubAgentGatewayFails
    \/ \E f \in DOMAIN futures : SubAgentFuturePending /\ TimeoutFires(f)
    \/ SubAgentFuturePending /\ Tick

SpecDelegate == InitDelegate /\ [][NextDelegate]_vars

\* =================================================================== claims
Creates(r) == Cardinality({f \in DOMAIN futures : futures[f].requestId = r})

FutureOf(r) == CHOOSE f \in DOMAIN futures : futures[f].requestId = r

IsLive(f) == \E r \in DOMAIN pendingRequests : pendingRequests[r].fut = f

\* C6: for an id created once, a resolve returns true exactly when the request
\* is still outstanding, fulfils its promise and removes the entry, so every
\* later resolve returns false; resolve and reject on an id that was never
\* created return false and leave the registry and every promise unchanged.
C6_IdempotentResolution ==
    [][lastOp'.op \in {"resolve", "reject"} =>
        LET r == lastOp'.id
        IN  /\ r \notin DOMAIN pendingRequests'
            /\ Creates(r) = 0 =>
                  /\ lastOp'.ret = FALSE
                  /\ pendingRequests' = pendingRequests
                  /\ futures' = futures
            /\ Creates(r) = 1 =>
                  /\ lastOp'.ret = (futures[FutureOf(r)].state = "pending"
                                      /\ futures[FutureOf(r)].armed)
                  /\ (lastOp'.ret /\ lastOp'.op = "resolve") =>
                        futures'[FutureOf(r)].state = "resolved"
                  /\ futures[FutureOf(r)].state # "pending" => lastOp'.ret = FALSE
      ]_vars

\* a second resolve of an id created once, after the first one fulfilled it,
\* has returned false
C6_Witness ==
    /\ lastOp.op = "resolve"
    /\ lastOp.ret = FALSE
    /\ Creates(lastOp.id) = 1
    /\ futures[FutureOf(lastOp.id)].state = "resolved"

\* C7: a promise is settled at most once, and once it is settled its entry is
\* out of the registry and its timer is disarmed.
C7_SettlementTerminal ==
    \A f \in DOMAIN futures :
        /\ futures[f].settles <= 1
        /\ futures[f].state # "pending" => (~futures[f].armed /\ ~IsLive(f))

\* a promise was resolved, and afterwards the timeout of a later request with
\* the same id ran
C7_Witness ==
    \E f \in DOMAIN futures :
        /\ futures[f].state = "resolved"
        /\ lastOp.op = "timeout"
        /\ lastOp.id = futures[f].requestId
        /\ lastOp.fut > f

\* C8: when the timer of a request runs, its promise is rejected with the
\* timeout error and the entry of its id is removed; a resolve that returns
\* true has fulfilled a promise that had not timed out.
C8_TimeoutRejects ==
    /\ lastOp.op = "timeout" =>
          /\ futures[lastOp.fut].state = "timeout"
          /\ futures[lastOp.fut].settles = 1
          /\ lastOp.id \notin DOMAIN pendingRequests
    /\ (lastOp.op = "resolve" /\ lastOp.ret) => futures[lastOp.fut].state = "resolved"

\* a resolve arrived after the only request of its id had timed out, and
\* returned false
C8_Witness ==
    /\ lastOp.op = "resolve"
    /\ lastOp.ret = FALSE
    /\ Creates(lastOp.id) = 1
    /\ futures[FutureOf(lastOp.id)].state = "timeout"

\* C10: the registry never holds more than maxRequests entries.
C10_CeilingRespected == Cardinality(DOMAIN pendingRequests) <= maxRequests

\* a step of the periodic sweep
IsSweepStep == cleanupInterval /\ nextSweep' = nextSweep + cleanupIntervalMs

\* C11: each sweep removes every entry older than the 60 s staleness ceiling
\* and rejects the future of each removed entry, whatever timeout was armed for
\* it; younger entries keep their entry and their future is left as it was.
C11_SweepRejectsStale ==
    [][IsSweepStep =>
          \A r \in DOMAIN pendingRequests :
             LET f == pendingRequests[r].fut
             IN  IF IsStale(pendingRequests[r], now)
                 THEN /\ r \notin DOMAIN pendingRequests'
                      /\ futures'[f].state \notin {"pending", "resolved"}
                 ELSE /\ r \in DOMAIN pendingRequests'
                      /\ pendingRequests'[r] = pendingRequests[r]
                      /\ futures'[f] = futures[f]
      ]_vars

\* C12: destroy() cancels the periodic sweep, rejects the future of every
\* entry outstanding at that moment with the 'destroyed' error, disarms their
\* timers and leaves the registry empty; futures without an entry are left as
\* they were.
C12_DestroyRejectsAll ==
    [][lastOp'.op = "destroy" =>
          /\ ~cleanupInterval'
          /\ ~SweepDue'
          /\ pendingRequests' = EmptyMap
          /\ \A f \in DOMAIN futures :
                IF IsLive(f)
                THEN /\ futures'[f].state = "destroyed"
                     /\ futures'[f].settles = 1
                     /\ ~futures'[f].armed
                ELSE futures'[f] = futures[f]
      ]_vars

\* destroy() has just rejected two outstanding requests
C12_Witness ==
    /\ lastOp.op = "destroy"
    /\ Len(futures) = 2
    /\ \A f \in DOMAIN futures : futures[f].state = "destroyed"

\* C13: no pending request is leaked: an unsettled future always has a
\* registry entry or an armed timer that will settle it.
C13_NoLeak ==
    \A f \in DOMAIN futures :
       futures[f].state = "pending" => (IsLive(f) \/ futures[f].armed)

\* ------------------------------------------- claims of the conversation store
\* C14: reads tolerate unknown conversation ids and writes do not: getHistory
\* of an id that is not in the store returns an empty sequence without error
\* (and the stored history for an id that is), whereas addMessage, addMessages
\* and clearHistory on an unknown id throw and leave the store as it was, no
\* conversation being created.
C14_ReadsTolerateWritesDoNot ==
    [][/\ client'.op = "getHistory" =>
             /\ ~client'.threw
             /\ conversations' = conversations
             /\ client'.held.items = IF client'.id \in DOMAIN conversations
                                     THEN conversations[client'.id].history ELSE <<>>
       /\ client'.op \in {"addMessage", "addMessages", "clearHistory"} =>
             IF client'.id \in DOMAIN conversations
             THEN ~client'.threw
             ELSE /\ client'.threw
                  /\ conversations' = conversations
                  /\ DOMAIN conversations' = DOMAIN conversations
      ]_vars

\* a write on an unknown id has just thrown, after a read of the same id had
\* returned an empty array
C14_Witness ==
    /\ client.op \in {"addMessage", "addMessages", "clearHistory"}
    /\ client.threw
    /\ client.id = "gone"
    /\ client.from = "gone"
    /\ client.loaded = <<>>
    /\ "gone" \notin DOMAIN conversations

\* C15: write-back round trip: after getHistory of an existing conversation of
\* n messages, k appends to the loaded copy, then clearHistory and addMessages
\* with that copy, getHistory returns exactly those n + k messages, the n
\* loaded ones first and the k appended ones after, in their order.
C15_WriteBackRoundTrip ==
    client.roundTrip =>
       /\ GetHistory(conversations, client.id) = client.loaded \o client.pushed
       /\ Len(GetHistory(conversations, client.id)) = Len(client.loaded) + Len(client.pushed)

\* a round trip with n = 2 and k = 1
C15_Witness ==
    /\ client.roundTrip
    /\ client.id = "c1"
    /\ Len(client.loaded) = 2
    /\ Len(client.pushed) = 1
    /\ Len(GetHistory(conversations, "c1")) = 3

\* C16: the array getHistory returns is independent of the store: a caller
\* appending to or removing from it changes nothing in the store, and later
\* addMessage, addMessages and clearHistory calls change nothing in it.
C16_DefensiveCopy ==
    [][/\ client'.op \in {"push", "pop"} => conversations' = conversations
       /\ client'.op \in {"addMessage", "addMessages", "clearHistory"} =>
             client'.held.items = client.held.items
      ]_vars

\* the caller has appended to the array loaded from the stored conversation,
\* the store has then been cleared, and the two differ
C16_Witness ==
    /\ client.op = "clearHistory"
    /\ ~client.threw
    /\ client.id = "c1"
    /\ client.from = "c1"
    /\ Len(client.pushed) = 1
    /\ Len(client.held.items) = 3
    /\ GetHistory(conversations, "c1") = <<>>

\* ------------------------------------------------- claims of the delegation
\* C17: the catalog a sub-agent sends to the gateway holds only tools of the
\* role's declared list: a tool of the main catalog that is not in the list
\* is in no gateway call of the sub-agent.
C17_SubAgentToolRestriction ==
    subAgent.gatewayCalls > 0 =>
       /\ subAgent.catalog \subseteq AllowedTools(subAgent.agent)
       /\ subAgent.catalog \subseteq subAgent.allTools
       /\ \A name \in subAgent.allTools :
             name \notin AllowedTools(subAgent.agent) => name \notin subAgent.catalog

\* the SEO agent, built over a main catalog with a design-only tool, has sent
\* a catalog without it and refused a call of it
C17_Witness ==
    /\ subAgent.agent = "seo"
    /\ subAgent.gatewayCalls >= 2
    /\ "update_global_styles" \in subAgent.allTools
    /\ "update_global_styles" \in subAgent.refused
    /\ "update_post_title" \in subAgent.catalog

\* C20: a failure of the write-back (clearHistory or addMessages raising)
\* ends the turn with an error: the turn is failed, its last event is the
\* error event, and no successful result is returned.
C20_SaveFailurePropagates ==
    turn.saveError =>
       /\ turn.pc = "failed"
       /\ ~turn.result.success
       /\ turn.events # <<>>
       /\ turn.events[Len(turn.events)].type = "error"

\* C22: in streaming mode, whenever the turn awaits the broker future of a
\* deferred result, the command payload with that future's requestId has
\* already been handed to the result callback.
CommandForwarded(t, requestId) ==
    \E i \in 1..Len(t.events) :
       /\ t.events[i].type = "tool_result"
       /\ t.events[i].ok
       /\ t.events[i].result.command = "gutenberg_action"
       /\ t.events[i].result.requestId = requestId

C22_CommandBeforeAwait ==
    (turn.mode = "stream" /\ turn.pc = "await")
       => CommandForwarded(turn, futures[turn.awaiting].requestId)

\* a streaming turn awaits a pending future whose command has been forwarded
C22_Witness ==
    /\ turn.mode = "stream"
    /\ turn.pc = "await"
    /\ futures[turn.awaiting].state = "pending"
    /\ turn.pendingResult.requestId = futures[turn.awaiting].requestId
    /\ CommandForwarded(turn, turn.pendingResult.requestId)

\* C23: the context message of a document is in a history at most once: a
\* turn injects it only if no user message of the history it loaded carries
\* the document's marker, and then immediately before its own user message.
Posts == {"p7", "p9"}

ContextCount(history, post) ==
    Cardinality({i \in 1..Len(history) :
                    history[i].role = "user" /\ history[i].marker = post})

LoadedHistory(t) ==
    IF t.activeConversationId \in DOMAIN t.before
    THEN t.before[t.activeConversationId].history ELSE <<>>

InLoop(t) == t.mode = "stream" /\ t.pc \in {"gateway", "handler", "await", "done", "failed"}
                               /\ t.gatewayCalls > 0

InjectedOnce(t) ==
    InLoop(t) =>
       LET h == t.conversationHistory
           n == Len(LoadedHistory(t))
           post == t.opts.wordpress_context
           user == TextMessage("user", t.opts.userMessage, Undefined)
       IN  /\ Len(h) > n
           /\ SubSeq(h, 1, n) = LoadedHistory(t)
           /\ IF post # Undefined /\ ContextCount(LoadedHistory(t), post) = 0
              THEN /\ Len(h) >= n + 2
                   /\ h[n + 1].role = "user" /\ h[n + 1].marker = post
                   /\ h[n + 2] = user
              ELSE h[n + 1] = user
           /\ \A p \in Posts : ContextCount(h, p) <= 1

C23_ContextInjectedOnce ==
    /\ InjectedOnce(turn)
    /\ InjectedOnce(peer)
    /\ \A id \in DOMAIN conversations, p \in Posts :
          ContextCount(conversations[id].history, p) <= 1

\* the first turn injected the context of page p9 into the stored
\* conversation and wrote it back; the second turn, on the same page, loaded
\* it and went on without injecting
C23_Witness ==
    /\ turn.pc = "done" /\ peer.pc = "done"
    /\ turn.activeConversationId = "c1" /\ peer.activeConversationId = "c1"
    /\ turn.opts.wordpress_context = "p9" /\ peer.opts.wordpress_context = "p9"
    /\ ContextCount(LoadedHistory(turn), "p9") = 0
    /\ ContextCount(LoadedHistory(peer), "p9") = 1
    /\ ContextCount(conversations["c1"].history, "p9") = 1
    /\ ContextCount(conversations["c1"].history, "p7") = 1

\* C25: with a non-empty allow-list the catalog sent to the gateway holds
\* only allowed tools, and no handler of a tool outside the list is invoked.
C25_AllowListRespected ==
    turn.opts.enabled_tools # {} =>
       /\ turn.catalog \subseteq turn.opts.enabled_tools
       /\ turn.invoked \subseteq turn.opts.enabled_tools

\* C26: after a successful streaming turn that ended on a terminal response,
\* the history persisted for the conversation ends with that final assistant
\* response.
C26_FinalResponsePersisted ==
    (/\ turn.mode = "stream"
     /\ turn.pc = "done"
     /\ turn.result.success
     /\ turn.finalResponse # NoResponse
     /\ turn.activeConversationId \in DOMAIN conversations)
    => LET h == conversations[turn.activeConversationId].history
       IN  /\ h # <<>>
           /\ h[Len(h)] = BlocksMessage("assistant", turn.finalResponse.content)

\* C27: whenever processRequestStream returns success with conversation_id c,
\* getHistory(c) equals the turn's final in-memory history, also for an id the
\* store does not know.
C27_WriteBackComplete ==
    (turn.mode = "stream" /\ turn.pc = "done" /\ turn.result.success)
       => GetHistory(conversations, turn.result.conversation_id) = turn.conversationHistory

\* ------------------------------------------------- claims of the stream route
IsTerminal(t) == t.pc \in {"done", "failed"}

\* C21: a streaming request whose turn fails ends with an error event and the
\* response closed after it, and every accepted streaming request eventually
\* has its response closed.
C21_StreamAlwaysCloses ==
    /\ [](res.phase = "closed" /\ turn.pc = "failed"
             => /\ res.ended
                /\ StreamOf(turn, res) # <<>>
                /\ StreamOf(turn, res)[Len(StreamOf(turn, res))] = "error")
    /\ (turn.mode = "stream") ~> res.ended

\* a turn failed by the gateway after a tool call was streamed: two error
\* events (onError, then the route's own), then the end of the response
C21_Witness ==
    /\ turn.pc = "failed"
    /\ res.ended
    /\ Len(turn.events) >= 4
    /\ res.written = <<"error">>
    /\ turn.events[Len(turn.events)].type = "error"

IsPrefix(s, t) == Len(s) <= Len(t) /\ SubSeq(t, 1, Len(s)) = s

\* C18: no lost update: whenever a turn writes its history back, what the
\* store held for that conversation just before (whatever any turn persisted
\* since this turn loaded its copy) is still there afterwards, as the prefix
\* of the stored history.
C18_NoLostUpdate ==
    [][\A id \in DOMAIN conversations :
          id \in DOMAIN conversations' /\ conversations'[id] # conversations[id]
             => IsPrefix(conversations[id].history, conversations'[id].history)]_vars

\* C19: a step of a turn on conversation A leaves the persisted history and
\* metadata of another turn's conversation B, and that turn's in-memory
\* history, as they were.
TurnIsolated(me, meNext, other, otherNext) ==
    (/\ meNext # me
     /\ other.pc \notin {"idle"}
     /\ meNext.activeConversationId # other.activeConversationId)
    => /\ otherNext.conversationHistory = other.conversationHistory
       /\ otherNext.activeConversationId = other.activeConversationId
       /\ other.activeConversationId \in DOMAIN conversations
       /\ other.activeConversationId \in DOMAIN conversations'
       /\ conversations'[other.activeConversationId]
             = conversations[other.activeConversationId]

C19_ConversationsIsolated ==
    [][/\ TurnIsolated(turn, turn', peer, peer')
       /\ TurnIsolated(peer, peer', turn, turn')]_vars

\* both turns have run to their write-back on different conversations, one of
\* them created by its turn, and each conversation holds its own turn's message
C19_Witness ==
    /\ turn.pc = "done"
    /\ peer.pc = "done"
    /\ turn.activeConversationId = "c1"
    /\ peer.activeConversationId = "u1"
    /\ Len(turn.conversationHistory) >= 5
    /\ conversations["c1"].history = turn.conversationHistory
    /\ conversations["u1"].history = peer.conversationHistory
    /\ \E i \in 1..Len(peer.conversationHistory) :
          peer.conversationHistory[i] = TextMessage("user", "message-2", Undefined)

\* C28: a sub-agent never invokes the handler of a tool outside its role's
\* list: such a call (or one of an unknown tool) gets an is_error tool_result
\* with its correlation id, and the loop goes on.
Range(seq) == {seq[i] : i \in 1..Len(seq)}

C28_SubAgentRefusesOutsideSubset ==
    \A i \in 1..Len(subAgent.calls) :
       LET c == subAgent.calls[i]
       IN  c.name \notin AllowedTools(subAgent.agent) =>
              /\ c.id \notin Range(subAgent.invoked)
              /\ \E j \in 1..Len(subAgent.results) :
                    /\ subAgent.results[j].tool_use_id = c.id
                    /\ subAgent.results[j].is_error
              /\ \/ subAgent.iterations > c.iteration
                 \/ c.iteration = SubAgentMaxIterations /\ subAgent.payload.returned

\* the SEO agent was asked for a design tool of the main catalog, refused it,
\* and completed a call of its own list in a later iteration
C28_Witness ==
    /\ subAgent.agent = "seo"
    /\ "update_global_styles" \in subAgent.allTools
    /\ Len(subAgent.calls) = 2
    /\ subAgent.calls[1].name = "update_global_styles"
    /\ subAgent.calls[1].outcome = "unavailable"
    /\ subAgent.calls[2].name = "update_post_title"
    /\ subAgent.calls[2].outcome = "ok"
    /\ subAgent.calls[2].iteration > subAgent.calls[1].iteration

\* C29 as stated: at most 10 gateway calls, no gateway call after the first
\* non tool_use response, and every delegation that ends returns a payload
\* with success, message and toolsExecuted, the latter being the calls whose
\* handlers completed, in dispatch order.
CompletedNames(calls) ==
    LET ok == SelectSeq(calls, LAMBDA c : c.outcome = "ok")
    IN  [i \in 1..Len(ok) |-> ok[i].name]

PayloadComplete(sa) ==
    /\ sa.payload.returned
    /\ sa.payload.success
    /\ sa.payload.message # Undefined
    /\ sa.payload.toolsExecuted = CompletedNames(sa.calls)

CeilingAndStop(sa) ==
    /\ sa.gatewayCalls <= SubAgentMaxIterations
    /\ sa.finalAt # 0 => sa.gatewayCalls = sa.finalAt /\ sa.pc = "done"

C29_SubAgentAlwaysReturnsPayload ==
    /\ CeilingAndStop(subAgent)
    /\ subAgent.pc = "done" => PayloadComplete(subAgent)

\* C29, amended: the same, for every delegation none of whose gateway calls
\* throws; when one throws, execute rethrows and returns no payload.
C29_SubAgentReturnsPayload ==
    /\ CeilingAndStop(subAgent)
    /\ (subAgent.pc = "done" /\ ~subAgent.executeThrew) => PayloadComplete(subAgent)
    /\ (subAgent.pc = "done" /\ subAgent.executeThrew) => ~subAgent.payload.returned

\* a delegation returned after a handler that threw and one that completed
C29_Witness ==
    /\ subAgent.pc = "done"
    /\ subAgent.payload.returned
    /\ Len(subAgent.calls) = 2
    /\ subAgent.calls[1].outcome = "threw"
    /\ subAgent.calls[2].outcome = "ok"
    /\ subAgent.payload.toolsExecuted = <<subAgent.calls[2].name>>
    /\ subAgent.finalAt = 3

\* C30: a sub-agent records the tool_result of a deferred result only once
\* the broker future of that result has settled, as the main loop does.
C30_SubAgentAwaitsDeferred ==
    \A j \in 1..Len(subAgent.results) :
       subAgent.results[j].fut # 0 => futures[subAgent.results[j].fut].state # "pending"

\* C31: the tool set handed to a sub-agent never contains the delegation
\* tool, and no sub-agent ever runs its handler: delegation is one level deep.
C31_NoNestedDelegation ==
    /\ DelegationTool \notin subAgent.catalog
    /\ \A i \in 1..Len(subAgent.calls) :
          subAgent.calls[i].name = DelegationTool
             => /\ subAgent.calls[i].outcome = "unavailable"
                /\ subAgent.calls[i].id \notin Range(subAgent.invoked)

\* a sub-agent built over a main catalog that holds the delegation tool was
\* asked to delegate, and refused
C31_Witness ==
    /\ DelegationTool \in subAgent.allTools
    /\ subAgent.catalog # {}
    /\ \E i \in 1..Len(subAgent.calls) :
          /\ subAgent.calls[i].name = DelegationTool
          /\ subAgent.calls[i].outcome = "unavailable"
    /\ subAgent.pc = "done"
    /\ subAgent.payload.returned

\* C32: delegating to a role that is not configured starts no sub-agent loop
\* and makes no gateway call for it; the main loop records one is_error result
\* under the id of that call, reports it as a failure and goes on to its next
\* gateway call.
C32_UnknownRoleContained ==
    subAgent.pc = "threw"
       => /\ subAgent.agent \notin Agents
          /\ subAgent.gatewayCalls = 0 /\ subAgent.iterations = 0
          /\ subAgent.catalog = {} /\ subAgent.calls = <<>>
          /\ ~subAgent.payload.returned
          /\ turn.pc = "gateway" /\ turn.error = "none"
          /\ turn.iterations = 2 /\ turn.gatewayCalls = 2
          /\ Len(turn.toolResults) = 1
          /\ turn.toolResults[1].id = turn.toolCalls[1].id
          /\ turn.toolResults[1].is_error
          /\ turn.conversationHistory[Len(turn.conversationHistory)]
                = BlocksMessage("user", turn.toolResults)
          /\ \E i \in 1..Len(turn.events) :
                /\ turn.events[i].type = "tool_result"
                /\ turn.events[i].name = DelegationTool
                /\ ~turn.events[i].ok

\* the throw of an unknown role has been caught by the main loop
C32_Witness ==
    /\ subAgent.pc = "threw"
    /\ subAgent.agent = "unknown"
    /\ turn.toolCalls[1].name = DelegationTool
    /\ turn.toolResults[1].is_error
    /\ turn.pc = "gateway"

\* C33: a rejected plan ends the turn with success=false and plan_rejected,
\* with no conversation created, the store as it was, no gateway call of the
\* loop, no tool dispatched and nothing lost from the broker; once a plan is
\* approved, or there is no approval callback, the turn is in the state a
\* turn without a plan starts its loop in.
C33_PlanLeavesNoTrace(t) ==
    [t EXCEPT !.planCalls = 0,
              !.events = SelectSeq(@, LAMBDA e : e.type # "plan_generated")]

C33_WithoutPlan ==
    OpenConversation(World([IdleTurn EXCEPT !.mode = "stream", !.opts = turn.opts,
                                            !.before = turn.before]))

C33_PlanIsAdvisory ==
    /\ [](turn.result.plan_rejected
            => /\ turn.pc = "done" /\ turn.result.returned
               /\ ~turn.result.success
               /\ turn.result.response = "Plan rejected by user"
               /\ conversations = turn.before
               /\ turn.activeConversationId = NoConversation
               /\ turn.conversationHistory = <<>>
               /\ turn.gatewayCalls = 0 /\ turn.iterations = 0
               /\ turn.dispatched = <<>> /\ turn.invoked = {}
               /\ futures = <<>>)
    /\ [][(/\ turn.pc \in {"planGateway", "planApproval"}
           /\ turn'.pc \notin {"planGateway", "planApproval", "failed"}
           /\ ~turn'.result.plan_rejected)
             => /\ C33_PlanLeavesNoTrace(turn') = C33_WithoutPlan.t
                /\ conversations' = C33_WithoutPlan.store
                /\ futures' = C33_WithoutPlan.futs]_vars

\* the callback has rejected a generated plan and the turn has returned
C33_Witness ==
    /\ turn.opts.plan /\ turn.opts.onPlanGenerated
    /\ turn.planCalls = 1
    /\ turn.result.plan_rejected /\ turn.result.returned
    /\ turn.events = <<Event("plan_generated", "", TRUE, NoResult, "", 0)>>

\* C34: every unsettled future whose timer is armed is the one registered
\* under its correlation id, also after createPendingRequest is called again
\* with an id that is still registered: there is one live request per id, and
\* no timer of an earlier create has removed the entry of a later one.
C34_OneLiveEntryPerId ==
    \A f \in DOMAIN futures :
       (futures[f].state = "pending" /\ futures[f].armed)
          => /\ futures[f].requestId \in DOMAIN pendingRequests
             /\ pendingRequests[futures[f].requestId].fut = f

\* C35: between two gateway calls and at the end of a streaming turn, every
\* dispatched tool call has produced one onToolCall and one onToolResult, and
\* no onToolResult reports success=true with a result that is a failure.
C35_EventCount(type) ==
    Cardinality({i \in 1..Len(turn.events) : turn.events[i].type = type})

C35_OneCallOneResult ==
    /\ (turn.mode = "stream" /\ turn.pc \in {"gateway", "done", "failed"})
          => /\ C35_EventCount("tool_call") = Len(turn.dispatched)
             /\ C35_EventCount("tool_result") = Len(turn.dispatched)
    /\ \A i \in 1..Len(turn.events) :
          (turn.events[i].type = "tool_result" /\ turn.events[i].ok)
             => turn.events[i].result.success # "false"

\* C36: the events of a closed streaming response hold exactly one terminal
\* event (final_response or error), and it is the last event written.
C36_TerminalEvents(stream) ==
    {i \in 1..Len(stream) : stream[i] \in {"final_response", "error"}}

C36_OneTerminalEvent ==
    (res.phase = "closed" /\ res.status = 200)
       => LET stream == StreamOf(turn, res)
          IN  /\ Cardinality(C36_TerminalEvents(stream)) = 1
              /\ C36_TerminalEvents(stream) = {Len(stream)}

\* C37: a run of the idle sweep deletes exactly the conversations whose
\* updated_at is more than 24 h before the sweep instant and leaves every other
\* conversation as it was; every call that names a stored conversation leaves
\* its updated_at at the instant of the call, so a conversation named by a call
\* within the last 24 h is in the store after every sweep.
C37_SweepStep == nextSweep' # nextSweep

C37_SweepDeletesOnlyStale ==
    /\ [](/\ DOMAIN stamps = DOMAIN conversations
          /\ \A id \in DOMAIN stamps :
                /\ stamps[id].updated_at = stamps[id].accessed_at
                /\ stamps[id].updated_at <= now)
    /\ [][C37_SweepStep
            => /\ DOMAIN conversations'
                    = {id \in DOMAIN conversations :
                          now - stamps[id].updated_at <= MAX_INACTIVE_TIME}
               /\ \A id \in DOMAIN conversations' :
                     /\ conversations'[id] = conversations[id]
                     /\ stamps'[id] = stamps[id]
               /\ \A id \in DOMAIN conversations :
                     now - stamps[id].accessed_at <= MAX_INACTIVE_TIME
                        => id \in DOMAIN conversations']_vars

\* after a sweep 25 h after construction, the conversation nobody named since
\* is gone and the one read exactly 24 h before the sweep is still stored
C37_Witness ==
    /\ now = 25 * CLEANUP_INTERVAL
    /\ nextSweep > now
    /\ "u1" \notin DOMAIN conversations
    /\ "c1" \in DOMAIN conversations
    /\ stamps["c1"].created_at = 0
    /\ stamps["c1"].updated_at = CLEANUP_INTERVAL

\* C38: a clearHistory that finds its conversation leaves it stored with an
\* empty history, the same metadata and the same created_at, and changes no
\* other conversation; an addMessages of the same id that follows it does not
\* throw and stores its messages.
C38_ClearHistoryKeepsConversation ==
    /\ [][(client'.op = "clearHistory" /\ ~client'.threw)
            => /\ client'.id \in DOMAIN conversations
               /\ DOMAIN conversations' = DOMAIN conversations
               /\ conversations'[client'.id].history = <<>>
               /\ conversations'[client'.id].metadata = conversations[client'.id].metadata
               /\ stamps'[client'.id].created_at = stamps[client'.id].created_at
               /\ \A id \in DOMAIN conversations \ {client'.id} :
                     conversations'[id] = conversations[id]]_vars
    /\ [][(/\ client.op = "clearHistory" /\ ~client.threw
           /\ client'.op = "addMessages" /\ client'.id = client.id)
            => /\ ~client'.threw
               /\ client'.id \in DOMAIN conversations'
               /\ Len(conversations'[client'.id].history)
                     >= Len(conversations[client'.id].history)]_vars

\* an addMessages has written a loaded history back right after the
\* clearHistory of its conversation, which was created an hour earlier
C38_Witness ==
    /\ client.op = "addMessages" /\ ~client.threw /\ client.roundTrip
    /\ client.id = "c1"
    /\ conversations["c1"].history = client.held.items
    /\ conversations["c1"].history # <<>>
    /\ conversations["c1"].metadata = StoredConversation.metadata
    /\ stamps["c1"].created_at = 0
    /\ stamps["c1"].updated_at = now /\ now > 0

\* C39: validateAndRetry calls executeTool at most maxRetries times (3 when
\* not passed); it returns what the first attempt that does not throw returns
\* and calls nothing after it; it waits 1000 * attempt ms after each failed
\* attempt but the last; and when every attempt has thrown it raises one error
\* that carries the message of the last failure.
C39_BoundedRetry ==
    /\ retry.attempts <= retry.maxRetries
    /\ ~retry.given /\ retry.pc # "idle" => retry.maxRetries = DefaultMaxRetries
    /\ Len(retry.failures) <= retry.attempts
    /\ \A i \in 1..Len(retry.waits) : retry.waits[i] = 1000 * i
    /\ retry.pc = "attempt" => Len(retry.failures) = retry.attempts - 1
    /\ retry.pc = "wait"
          => /\ Len(retry.failures) = retry.attempts
             /\ retry.attempts < retry.maxRetries
             /\ Len(retry.waits) = retry.attempts
    /\ retry.pc = "returned"
          => /\ Len(retry.failures) = retry.attempts - 1
             /\ Len(retry.waits) = retry.attempts - 1
             /\ retry.result \in RetryResults
             /\ retry.raised = 0
    /\ (retry.pc = "threw" /\ retry.maxRetries > 0)
          => /\ retry.attempts = retry.maxRetries
             /\ Len(retry.failures) = retry.maxRetries
             /\ Len(retry.waits) = retry.maxRetries - 1
             /\ retry.raised = 1
             /\ retry.error = retry.failures[Len(retry.failures)]
             /\ retry.result = NoResult
    /\ retry.raised <= 1

\* the default three attempts all threw, with different messages: two waits,
\* one error with the message of the third failure
C39_Witness ==
    /\ ~retry.given
    /\ retry.pc = "threw"
    /\ retry.attempts = 3
    /\ retry.failures = <<"unknown tool", "unknown tool", "handler failed">>
    /\ retry.waits = <<1000, 2000>>
    /\ retry.error = "handler failed"

\* ------------------------------------------------- claims of the agent loop
ToolUseIds(msg) ==
    LET calls == SelectSeq(msg.blocks, LAMBDA b : b.type = "tool_use")
    IN  [j \in 1..Len(calls) |-> calls[j].id]

IsToolResults(msg) ==
    /\ msg.role = "user"
    /\ msg.text = Undefined
    /\ \A j \in 1..Len(msg.blocks) : msg.blocks[j].type = "tool_result"

ResultIds(msg) == [j \in 1..Len(msg.blocks) |-> msg.blocks[j].id]

\* C1: in both loops, an assistant message with N tool-call blocks in the
\* history is followed at once by one user message of exactly N tool_result
\* blocks carrying the N requested ids, each once, whatever each call did
\* (returned, threw, timed out, named an unknown tool); while the assistant
\* message is still the last one the turn is inside a tool call and no gateway
\* call has been issued since the response that carried the tool calls.
C1_PairingInvariant ==
    LET h == turn.conversationHistory
    IN  \A i \in 1..Len(h) :
          h[i].role = "assistant" =>
             IF i < Len(h)
             THEN /\ IsToolResults(h[i + 1])
                  /\ ResultIds(h[i + 1]) = ToolUseIds(h[i])
                  /\ \A j, k \in 1..Len(h[i + 1].blocks) :
                        h[i + 1].blocks[j].id = h[i + 1].blocks[k].id => j = k
             ELSE /\ turn.pc \in {"handler", "await"}
                  /\ turn.gatewayCalls = turn.iterations
                  /\ ToolUseIds(h[i]) = [j \in 1..Len(turn.toolCalls) |-> turn.toolCalls[j].id]

\* a streaming turn whose response asked for an unknown tool and for the block
\* structure, which timed out: both are answered in the next message
C1_Witness ==
    LET h == turn.conversationHistory
    IN  /\ turn.mode = "stream"
        /\ \E i \in 1..(Len(h) - 1) :
              /\ h[i].role = "assistant"
              /\ Len(ToolUseIds(h[i])) = 2
              /\ h[i + 1].blocks[1].is_error
              /\ h[i + 1].blocks[2].content.success = "false"

\* maxIterations as the caller means it
ExpectedCeiling ==
    IF turn.opts.maxIterations = 0 THEN DefaultMaxIterations ELSE turn.opts.maxIterations

\* C2: the loop never issues more than maxIterations gateway calls, and a turn
\* whose every response was tool_use ends after exactly maxIterations calls
\* (20 when the caller names none), reports iterations = maxIterations and
\* returns a result with success, not an error.
C2_IterationCeiling ==
    /\ turn.pc \notin {"idle", "planGateway", "planApproval", "pageContext"} =>
          turn.gatewayCalls <= ExpectedCeiling
    /\ (turn.pc = "done" /\ turn.allToolUse /\ ~turn.result.plan_rejected) =>
          /\ turn.gatewayCalls = ExpectedCeiling
          /\ turn.result.iterations = ExpectedCeiling
          /\ turn.result.returned
          /\ turn.result.success

\* a streaming turn without a maxIterations option cut off after 20 tool_use
\* responses
C2_Witness ==
    /\ turn.pc = "done"
    /\ turn.mode = "stream"
    /\ turn.allToolUse
    /\ turn.opts.maxIterations = 0
    /\ turn.gatewayCalls = DefaultMaxIterations
    /\ turn.dispatched # <<>>

\* C3: a turn cut off at the ceiling (every response was tool_use) reports the
\* text of the last response received from the gateway.
C3_LastResponseReported ==
    (turn.pc = "done" /\ turn.allToolUse /\ turn.result.returned
        /\ ~turn.result.plan_rejected) =>
       turn.result.response = ExtractText(turn.response)

\* C4: a handler that throws or a call that names no registered tool does not
\* end the turn: its tool_result has is_error and the call's own id, every
\* call of the same response was dispatched, and after the results are
\* appended the turn is at its next gateway call (or has stopped at the
\* ceiling, or that next gateway call has answered or failed).
C4_ToolFailureContained ==
    LET h == turn.conversationHistory
    IN  /\ turn.pc = "failed" => turn.error = "gateway"
        /\ \A j \in 1..Len(turn.toolResults) :
              turn.toolResults[j].is_error => turn.toolResults[j].id = turn.toolCalls[j].id
        /\ \A i \in 2..Len(h) :
              (IsToolResults(h[i]) /\ \E j \in 1..Len(h[i].blocks) : h[i].blocks[j].is_error) =>
                 /\ h[i - 1].role = "assistant"
                 /\ \A j \in 1..Len(h[i].blocks) :
                       h[i].blocks[j].is_error => h[i].blocks[j].id = ToolUseIds(h[i - 1])[j]
                 /\ \A j \in 1..Len(ToolUseIds(h[i - 1])) :
                       \E d \in 1..Len(turn.dispatched) :
                          turn.dispatched[d] = ToolUseIds(h[i - 1])[j]
                 /\ i = Len(h) =>
                       \/ turn.pc = "gateway"
                       \/ turn.pc = "failed" /\ turn.error = "gateway"
                       \/ /\ turn.pc = "done"
                          /\ \/ turn.finalResponse # NoResponse
                             \/ turn.iterations = turn.maxIterations

\* a response asked for the remote tool, whose handler threw, and then for an
\* unknown tool; both failures are in the results and the second gateway call
\* is under way
C4_Witness ==
    LET h == turn.conversationHistory
    IN  /\ turn.pc = "gateway"
        /\ turn.gatewayCalls = 2
        /\ Len(h) >= 2
        /\ IsToolResults(h[Len(h)])
        /\ Len(h[Len(h)].blocks) = 2
        /\ h[Len(h)].blocks[1].is_error
        /\ h[Len(h)].blocks[1].content.message = "handler failed"
        /\ h[Len(h)].blocks[2].is_error

\* C5: a streaming turn in which a gateway call failed has thrown to its
\* caller after calling onError, takes no further step (no gateway call, no
\* tool dispatch), and every conversation's stored history is what it was when
\* the turn started.
C5_GatewayFailureFatal ==
    [][/\ turn.pc = "failed" => (turn' = turn /\ conversations' = conversations)
       /\ (turn'.pc = "failed" /\ turn'.mode = "stream") =>
             /\ turn'.error = "gateway"
             /\ ~turn'.result.returned
             /\ Len(turn'.events) > 0
             /\ turn'.events[Len(turn'.events)].type = "error"
             /\ \A id \in ConversationIds :
                   GetHistory(conversations', id) = GetHistory(turn'.before, id)
      ]_vars

\* the second gateway call of a streaming turn on the stored conversation
\* failed after tools had run
C5_Witness ==
    /\ turn.pc = "failed"
    /\ turn.mode = "stream"
    /\ turn.activeConversationId = "c1"
    /\ turn.gatewayCalls = 2
    /\ turn.dispatched # <<>>
    /\ Len(turn.conversationHistory) > Len(GetHistory(conversations, "c1"))

\* C9: when the future a tool call awaits has rejected (timeout or any other
\* rejection), executeTool returns instead of throwing: the call's tool_result
\* is not an error block, and its content has success false and the command
\* marker, action and requestId of the command that was sent.
C9_RejectionBecomesFailureResult ==
    [][(/\ turn.pc = "await"
        /\ futures[turn.awaiting].state \notin {"pending", "resolved"}
        /\ turn' # turn) =>
          LET k == turn.toolIdx + 1
          IN  /\ turn'.pc # "failed"
              /\ Len(turn'.toolResults) >= k
              /\ turn'.toolResults[k].id = turn.toolCalls[k].id
              /\ ~turn'.toolResults[k].is_error
              /\ turn'.toolResults[k].content.success = "false"
              /\ turn'.toolResults[k].content.command = "gutenberg_action"
              /\ turn'.toolResults[k].content.action = "get_blocks_structure"
              /\ turn'.toolResults[k].content.requestId = turn.pendingResult.requestId
              /\ turn'.toolResults[k].content.requestId = futures[turn.awaiting].requestId
      ]_vars

\* the results sent back hold the failure result of a request that timed out
C9_Witness ==
    LET h == turn.conversationHistory
    IN  /\ Len(h) > 0
        /\ IsToolResults(h[Len(h)])
        /\ \E j \in 1..Len(h[Len(h)].blocks) :
              /\ h[Len(h)].blocks[j].content.success = "false"
              /\ h[Len(h)].blocks[j].content.requestId > 0
              /\ h[Len(h)].blocks[j].content.error = "Iframe response timeout: Request timed out"

=============================================================================
